---------------------------- MODULE Spec2Model ----------------------------
(***************************************************************************)
(* Verification model of f4n4t/go-release: the CRC32 checksum engine       *)
(* (pkg/utils/crc.go), the sidecar (SFV) verifier (sfv_check.go) and the   *)
(* remote-record (SRR) verifier (srr_check.go).                            *)
(*                                                                         *)
(* A uint32 is kept as two 16-bit halves (TLC's integers are 32-bit signed, *)
(* so a CRC32 does not fit in one).                                        *)
(***************************************************************************)
EXTENDS Integers, Sequences, FiniteSets, TLC

\* ------------------------------------------------------------------ bounds
\* Longest file, in bytes.
MaxFileLen == 5
\* Number of different contents per file length.
MaxSeed == 1
\* Largest worker count (hashThreads, or GOMAXPROCS when hashThreads is 0).
MaxWorkers == 2
\* Bytes per chunk.  The code uses 10 MiB (crc.go:135); the model scales it
\* down so that files of a few bytes have several chunks.
ChunkSize == 2
\* Bytes per Read call of io.Copy (32 KiB in the Go runtime), scaled down so
\* that a chunk takes more than one Read.
ReadBuf == 1
\* Most entries in a manifest, and most manifests in a release.
MaxEntries == 2
MaxManifests == 2
\* Most candidate names CheckSRR looks up.
MaxCandidates == 2

MaxContainers == 3

MaxZipEntries == 3

MaxTotal == 3

MaxSize == 2

\* ----------------------------------------------------------------- uint32
\* A uint32 is the pair <<high 16 bits, low 16 bits>>.
Zero32 == <<0, 0>>

\* a XOR b, for natural numbers.
RECURSIVE XorInt(_, _)
XorInt(a, b) ==
    IF a = 0 THEN b
    ELSE IF b = 0 THEN a
    ELSE CHOOSE r \in {2 * XorInt(x, y) + ((a + b) % 2) :
                         <<x, y>> \in {<<a \div 2, b \div 2>>}} : TRUE

Xor32(x, y) == <<XorInt(x[1], y[1]), XorInt(x[2], y[2])>>

\* ^x
Not32(x) == <<65535 - x[1], 65535 - x[2]>>

\* x >> 1
Shr1(x) == <<x[1] \div 2, (x[2] \div 2) + (x[1] % 2) * 32768>>

\* The uint32 written as 8 hexadecimal digits, most significant first.
FromHex(d) ==
    <<((d[1] * 16 + d[2]) * 16 + d[3]) * 16 + d[4],
      ((d[5] * 16 + d[6]) * 16 + d[7]) * 16 + d[8]>>

\* crc32.IEEE, the reversed polynomial 0xedb88320.
IEEE == FromHex(<<14, 13, 11, 8, 8, 3, 2, 0>>)

\* One zero bit shifted through the CRC register.
ZeroBit(crc) == IF crc[2] % 2 = 1 THEN Xor32(Shr1(crc), IEEE) ELSE Shr1(crc)

\* In the loops below the next value of the accumulator is bound by
\* "c \in {...}", which has TLC compute it once per round.
RECURSIVE ZeroBits(_, _)
ZeroBits(crc, n) ==
    IF n = 0 THEN crc
    ELSE CHOOSE r \in {ZeroBits(c, n - 1) : c \in {ZeroBit(crc)}} : TRUE

\* One byte b shifted through the CRC register.
UpdateByte(crc, b) == ZeroBits(Xor32(crc, <<0, b>>), 8)

RECURSIVE UpdateRaw(_, _, _)
UpdateRaw(crc, p, i) ==
    IF i > Len(p) THEN crc
    ELSE CHOOSE r \in {UpdateRaw(c, p, i + 1) : c \in {UpdateByte(crc, p[i])}} : TRUE

\* hash/crc32 digest.Write: crc = update(crc, tab, p).
Update(crc, p) == Not32(UpdateRaw(Not32(crc), p, 1))

\* crc32combine.CRC32Combine(crc32.IEEE, crc1, crc2, len2): len2 zero bytes are
\* applied to crc1 (the library does it by squaring the zero-bit operator's
\* matrix), then crc2 is xor-ed in; len2 <= 0 returns crc1.
CRC32Combine(crc1, crc2, len2) ==
    IF len2 <= 0 THEN crc1 ELSE Xor32(ZeroBits(crc1, 8 * len2), crc2)

\* ------------------------------------------------------------------ files
Min(a, b) == IF a < b THEN a ELSE b

\* The content of a test file: n bytes, all zero for seed 0.
FileBytes(n, seed) == [i \in 1..n |-> (seed * (i * 89 + 7)) % 256]

Files == {FileBytes(n, s) : n \in 0..MaxFileLen, s \in 0..MaxSeed}

\* The bytes of f at offsets from..from+n-1 (offsets count from 0).
Slice(f, from, n) == [i \in 1..n |-> f[from + i]]


\* ----------------------------------------------------------------- errors
\* An error is its chain of wrapped errors, outermost first; nil is <<>>.
\* fmt.Errorf("msg: %w", err) puts "msg" in front of err's chain.
NilErr == <<>>

Wrap(msg, err) == <<msg>> \o err

\* errors.Is(err, target) for a sentinel target.
ErrorsIs(err, target) == \E i \in 1..Len(err) : err[i] = target

\* ctx.Err() is nil, context.Canceled or context.DeadlineExceeded.
CtxErrs == {"Canceled", "DeadlineExceeded"}

CtxError(c) == IF c = "nil" THEN NilErr ELSE <<c>>

\* ------------------------------------------------------------- chunk plan
\* type chunk struct {idx; crc; len}; chunk{} is the zero value.
Chunk(i, c, l) == [idx |-> i, crc |-> c, len |-> l]

ZeroChunk == Chunk(0, Zero32, 0)

\* A chunk count that gives the empty file one chunk.
TotalChunksAtLeastOne(size) ==
    IF size = 0 THEN 1 ELSE (size + ChunkSize - 1) \div ChunkSize

TotalChunks(fileSize) == (fileSize + ChunkSize - 1) \div ChunkSize

\* The loop "for fileRemaining > 0" that fills chunkList.
RECURSIVE PlanLoop(_, _, _, _)
PlanLoop(chunkList, chunkRemaining, fileRemaining, fileSize) ==
    IF fileRemaining > 0
    THEN CHOOSE r \in
           {PlanLoop(Append(chunkList, [startPos    |-> fileSize - fileRemaining,
                                        chunkLength |-> toAllocate]),
                     cr - toAllocate, fileRemaining - toAllocate, fileSize) :
              <<cr, toAllocate>> \in
                {<<x, Min(fileRemaining, x)>> :
                   x \in {IF chunkRemaining = 0 THEN ChunkSize ELSE chunkRemaining}}} :
           TRUE
    ELSE chunkList

\* A plan whose chunks all have the length chunkSize, the last one too.
ChunkListFixedLen(size) ==
    [i \in 1..((size + ChunkSize - 1) \div ChunkSize) |->
       [startPos |-> (i - 1) * ChunkSize, chunkLength |-> ChunkSize]]

\* chunkList; chunk i of the code is ChunkList(fileSize)[i + 1].
ChunkList(fileSize) == PlanLoop(<<>>, ChunkSize, fileSize, fileSize)

\* ------------------------------------------------------------------ state
VARIABLES
    file,        \* the bytes of the file at filePath
    ctxErr,      \* ctx.Err(): "nil", "Canceled" or "DeadlineExceeded"
    observed,    \* bytes written so far to the progress observers (writers)
    faults,      \* history: whether a file operation has failed
    numWorkers,  \* GetCRC32Parallel: numWorkers
    started,     \* GetCRC32Parallel: whether the goroutines have been started
    orch,        \* GetCRC32Parallel: the calling goroutine
    jobChan,     \* GetCRC32Parallel: the queued jobs, as chunk indices
    jobClosed,   \* GetCRC32Parallel: whether jobChan is closed
    prodIdx,     \* GetCRC32Parallel: the producer's loop index
    wk,          \* GetCRC32Parallel: the worker goroutines
    resultChan,  \* GetCRC32Parallel: the queued chunk results
    slotWrites,  \* history: how often each slot of results was assigned
    errRecv,     \* history: the errors received from errChan, in order
    seq,         \* GetCRC32: the call's position, hasher and result
    rel,         \* CheckSFV: the release's manifests (rel.Root.GetFiles(".sfv"))
    parallelFileRead, \* Service.parallelFileRead
    isSSD,       \* what utils.IsSSD answers for the release's path
    sfv,         \* CheckSFV and performSFVCheck: position and locals
    hashed,      \* history: the entries handed to VerifyCRC32, in order
    verified,    \* history: what the VerifyCRC32 calls returned, in order
    verdicts,    \* history: what the performSFVCheck calls returned, in order
    lookups,     \* CheckSRR: what srrdb.GetInformation returns per candidate
    fastCheck,   \* CheckSRR: fastCheck
    srr,         \* CheckSRR and verifySingleSRR: position and locals
    bar,         \* CheckSRR: the progress tracker
    examined,    \* history: the entries verifySingleSRR looked up, in order
    parsed,      \* history: the entries whose CRC string was parsed, in order
    engineCalls, \* history: the entries VerifyCRC32 was called for, in order
    engineCtx,   \* history: the service's ctx.Err() at each of these calls
    zip,         \* processZipFiles and validateArchiveCollection: locals and position
    zipReader,   \* the entries of the container that processZipContents was called on
    zipFiles,    \* CheckZip: the parent directory of each zip file of the release
    relNFO,      \* CheckZip: rel.NFO
    checkZip,    \* CheckZip: the extractNFO argument, locals and position
    getPre,      \* GetPre: the calling goroutine
    preCtx,      \* GetPre: ctx.Err() of the timeout context
    searchers,   \* GetPre: the search goroutines
    closer,      \* GetPre: the goroutine that closes resultChan
    resultClosed \* GetPre: whether resultChan is closed

sharedVars == <<file, ctxErr, observed, faults>>

parVars == <<numWorkers, started, orch, jobChan, jobClosed, prodIdx, wk,
             resultChan, slotWrites, errRecv>>

fileSize == Len(file)

totalChunks == TotalChunks(fileSize)

\* The state of a worker goroutine that is not running a job.
WorkerAt(pc) ==
    [pc |-> pc, idx |-> 0, pos |-> 0, h |-> Zero32, out |-> ZeroChunk, err |-> NilErr]

\* orch.ctxAtCall is history: ctx.Err() when the call was made.
ParInit ==
    /\ numWorkers \in 1..MaxWorkers
    /\ started = FALSE
    /\ orch = [pc |-> "stat", checkedLength |-> 0,
               results |-> [i \in 0..(totalChunks - 1) |-> ZeroChunk],
               retCRC |-> Zero32, retErr |-> NilErr, ctxAtCall |-> ctxErr]
    /\ jobChan = <<>>
    /\ jobClosed = FALSE
    /\ prodIdx = 0
    /\ wk = [w \in 1..numWorkers |-> WorkerAt("select")]
    /\ resultChan = <<>>
    /\ slotWrites = [i \in 0..(totalChunks - 1) |-> 0]
    /\ errRecv = <<>>

SharedInit ==
    /\ file \in Files
    /\ ctxErr \in {"nil"} \cup CtxErrs
    /\ observed = 0
    /\ faults = FALSE

\* The caller's token is cancelled, or its deadline passes.
Cancel ==
    /\ ctxErr = "nil"
    /\ ctxErr' \in CtxErrs
    /\ UNCHANGED <<file, observed, faults>>

\* ------------------------------------------------- GetCRC32Parallel
Return(crc, err) == [orch EXCEPT !.pc = "returned", !.retCRC = crc, !.retErr = err]

\* os.Stat and the directory test; then the channels, the chunk plan and the
\* goroutines are set up.
ParStat ==
    /\ orch.pc = "stat"
    /\ \E outcome \in {"ok", "stat", "dir"} :
         \/ /\ outcome = "ok"
            /\ orch' = [orch EXCEPT !.pc = "collect"]
            /\ started' = TRUE
            /\ UNCHANGED faults
         \/ /\ outcome = "stat"
            /\ orch' = Return(Zero32, Wrap("file info", <<"ErrNotExist">>))
            /\ faults' = TRUE
            /\ UNCHANGED started
         \/ /\ outcome = "dir"
            /\ orch' = Return(Zero32, <<"directory not regular file">>)
            /\ faults' = TRUE
            /\ UNCHANGED started
    /\ UNCHANGED <<file, ctxErr, observed, numWorkers, jobChan, jobClosed,
                   prodIdx, wk, resultChan, slotWrites, errRecv>>

\* The producer goroutine: jobChan <- job, for each chunk in order.
ProducerSend ==
    /\ started
    /\ prodIdx < totalChunks
    /\ Len(jobChan) < numWorkers
    /\ jobChan' = Append(jobChan, prodIdx)
    /\ prodIdx' = prodIdx + 1
    /\ UNCHANGED <<sharedVars, numWorkers, started, orch, jobClosed, wk,
                   resultChan, slotWrites, errRecv>>

\* The producer's deferred close(jobChan).
ProducerClose ==
    /\ started
    /\ prodIdx = totalChunks
    /\ ~jobClosed
    /\ jobClosed' = TRUE
    /\ UNCHANGED <<sharedVars, numWorkers, started, orch, jobChan, prodIdx, wk,
                   resultChan, slotWrites, errRecv>>

\* A worker's select: case <-ctx.Done().
WorkerCtxDone(w) ==
    /\ started
    /\ wk[w].pc = "select"
    /\ ctxErr # "nil"
    /\ wk' = [wk EXCEPT ![w] = WorkerAt("exit")]
    /\ UNCHANGED <<sharedVars, numWorkers, started, orch, jobChan, jobClosed,
                   prodIdx, resultChan, slotWrites, errRecv>>

\* A worker's select: case job, ok := <-jobChan with ok; the job starts with a
\* reset hasher.
WorkerTakeJob(w) ==
    /\ started
    /\ wk[w].pc = "select"
    /\ jobChan # <<>>
    /\ wk' = [wk EXCEPT ![w] = [WorkerAt("open") EXCEPT !.idx = Head(jobChan)]]
    /\ jobChan' = Tail(jobChan)
    /\ UNCHANGED <<sharedVars, numWorkers, started, orch, jobClosed, prodIdx,
                   resultChan, slotWrites, errRecv>>

\* A worker's select: jobChan is closed and drained.
WorkerJobsClosed(w) ==
    /\ started
    /\ wk[w].pc = "select"
    /\ jobChan = <<>>
    /\ jobClosed
    /\ wk' = [wk EXCEPT ![w] = WorkerAt("exit")]
    /\ UNCHANGED <<sharedVars, numWorkers, started, orch, jobChan, jobClosed,
                   prodIdx, resultChan, slotWrites, errRecv>>

\* Mutant of JobFail: the job returns chunk{} without handing its error over.
JobFailSilent(w, err) == [wk EXCEPT ![w].pc = "resSend", ![w].out = ZeroChunk]

\* The job blocks on errChan <- err.
JobFail(w, err) == [wk EXCEPT ![w].pc = "errSend", ![w].err = err]

\* The job's os.Open and f.Seek.
JobOpen(w) ==
    /\ wk[w].pc = "open"
    /\ \E outcome \in {"ok", "open", "seek"} :
         \/ /\ outcome = "ok"
            /\ wk' = [wk EXCEPT ![w].pc = "copy"]
            /\ UNCHANGED faults
         \/ /\ outcome = "open"
            /\ wk' = JobFail(w, <<"EACCES">>)
            /\ faults' = TRUE
         \/ /\ outcome = "seek"
            /\ wk' = JobFail(w, <<"EINVAL">>)
            /\ faults' = TRUE
    /\ UNCHANGED <<file, ctxErr, observed, numWorkers, started, orch, jobChan,
                   jobClosed, prodIdx, resultChan, slotWrites, errRecv>>

\* chunk c of the plan, for the chunk index idx.
PlanAt(idx) == ChunkList(fileSize)[idx + 1]

\* One Read of the job's io.Copy(writer, io.LimitReader(f, c.chunkLength)), and
\* the Write of what was read to the hasher and the observers.  When the limit
\* is reached the copy ends and the job returns its chunk (written equals
\* c.chunkLength); a read or write error and an early end of file make it fail.
JobCopy(w) ==
    /\ wk[w].pc = "copy"
    /\ \E c \in {PlanAt(wk[w].idx)} :
       \E n \in {Min(ReadBuf, c.chunkLength - wk[w].pos)} :
       \E h \in {Update(wk[w].h, Slice(file, c.startPos + wk[w].pos, n))} :
       \E written \in {wk[w].pos + n} :
           \E outcome \in {"ok", "error", "eof"} :
             \/ /\ outcome = "ok"
                /\ wk' = IF written = c.chunkLength
                         THEN [wk EXCEPT ![w].pc = "resSend", ![w].pos = written,
                                         ![w].h = h,
                                         ![w].out = Chunk(wk[w].idx, h, written)]
                         ELSE [wk EXCEPT ![w].pos = written, ![w].h = h]
                /\ observed' = observed + n
                /\ UNCHANGED faults
             \/ /\ outcome = "error"
                /\ wk' = JobFail(w, Wrap("filePath: copy", <<"EIO">>))
                /\ faults' = TRUE
                /\ UNCHANGED observed
             \/ /\ outcome = "eof"
                /\ wk' = JobFail(w, <<"incomplete read">>)
                /\ faults' = TRUE
                /\ UNCHANGED observed
    /\ UNCHANGED <<file, ctxErr, numWorkers, started, orch, jobChan, jobClosed,
                   prodIdx, resultChan, slotWrites, errRecv>>

\* The worker's resultChan <- job(): the chunk the job returned is queued.
WorkerSendResult(w) ==
    /\ wk[w].pc = "resSend"
    /\ Len(resultChan) < numWorkers
    /\ resultChan' = Append(resultChan, wk[w].out)
    /\ wk' = [wk EXCEPT ![w] = WorkerAt("select")]
    /\ UNCHANGED <<sharedVars, numWorkers, started, orch, jobChan, jobClosed,
                   prodIdx, slotWrites, errRecv>>

\* The collection loop's select: case <-ctx.Done().
OrchCtxDone ==
    /\ orch.pc = "collect"
    /\ orch.checkedLength < fileSize
    /\ ctxErr # "nil"
    /\ orch' = Return(Zero32, CtxError(ctxErr))
    /\ UNCHANGED <<sharedVars, numWorkers, started, jobChan, jobClosed, prodIdx,
                   wk, resultChan, slotWrites, errRecv>>

\* Mutant of Collect: the result is stored and its length is not counted.
CollectNoLength(o, result) ==
    [o EXCEPT !.results = [o.results EXCEPT ![result.idx] = result]]

\* A collection that appends: the result goes to the first slot not yet used.
CollectInArrivalOrder(o, result) ==
    [o EXCEPT !.checkedLength = o.checkedLength + result.len,
              !.results = [o.results EXCEPT
                             ![Cardinality({i \in DOMAIN o.results :
                                              o.results[i] # ZeroChunk})] = result]]

\* The collection loop's select: case result := <-resultChan.
Collect(o, result) ==
    [o EXCEPT !.checkedLength = o.checkedLength + result.len,
              !.results = [o.results EXCEPT ![result.idx] = result]]

OrchRecvResult ==
    /\ orch.pc = "collect"
    /\ orch.checkedLength < fileSize
    /\ resultChan # <<>>
    /\ orch' = Collect(orch, Head(resultChan))
    /\ slotWrites' = [slotWrites EXCEPT ![Head(resultChan).idx] = @ + 1]
    /\ resultChan' = Tail(resultChan)
    /\ UNCHANGED <<sharedVars, numWorkers, started, jobChan, jobClosed, prodIdx,
                   wk, errRecv>>

\* The collection loop's select: case err := <-errChan.  errChan is unbuffered:
\* the receive meets the send of a job blocked on it, and that job goes on to
\* return chunk{}.
OrchRecvErr(w) ==
    /\ orch.pc = "collect"
    /\ orch.checkedLength < fileSize
    /\ wk[w].pc = "errSend"
    /\ orch' = Return(Zero32, Wrap("crc32 calculation", wk[w].err))
    /\ wk' = [wk EXCEPT ![w].pc = "resSend", ![w].out = ZeroChunk, ![w].err = NilErr]
    /\ errRecv' = Append(errRecv, wk[w].err)
    /\ UNCHANGED <<sharedVars, numWorkers, started, jobChan, jobClosed, prodIdx,
                   resultChan, slotWrites>>

\* The fold of the collected chunks, in slot order.
RECURSIVE FoldFrom(_, _, _, _)
FoldFrom(results, i, n, resultCRC) ==
    IF i >= n THEN resultCRC
    ELSE CHOOSE r \in {FoldFrom(results, i + 1, n, c) :
                       c \in {CRC32Combine(resultCRC, results[i].crc, results[i].len)}} :
             TRUE

\* Mutant of Fold: every chunk is taken to be ChunkSize bytes long.
RECURSIVE FoldFixedLenFrom(_, _, _, _)
FoldFixedLenFrom(results, i, n, resultCRC) ==
    IF i >= n THEN resultCRC
    ELSE CHOOSE r \in {FoldFixedLenFrom(results, i + 1, n, c) :
                       c \in {CRC32Combine(resultCRC, results[i].crc, ChunkSize)}} :
             TRUE

FoldFixedLen(results, n) == FoldFixedLenFrom(results, 0, n, Zero32)

Fold(results, n) == FoldFrom(results, 0, n, Zero32)

\* The collection loop ends with checkedLength >= fileSize: fold and return.
OrchFold ==
    /\ orch.pc = "collect"
    /\ ~(orch.checkedLength < fileSize)
    /\ orch' = Return(Fold(orch.results, totalChunks), NilErr)
    /\ UNCHANGED <<sharedVars, numWorkers, started, jobChan, jobClosed, prodIdx,
                   wk, resultChan, slotWrites, errRecv>>

\* ---------------------------------------------------------- GetCRC32
seqVars == <<seq>>

\* ctxAtCall and cause are history: the token's state when the call was made,
\* and the statement that made the call return.
SeqInit ==
    seq = [pc |-> "stat", pos |-> 0, h |-> Zero32, retCRC |-> Zero32,
           retErr |-> NilErr, ctxAtCall |-> ctxErr, cause |-> "none"]

SeqReturn(crc, err, cause) ==
    [seq EXCEPT !.pc = "returned", !.retCRC = crc, !.retErr = err, !.cause = cause]

\* The error GetCRC32 returns when io.Copy returned err: the switch on err.
CopyError(err) ==
    IF err = <<"Canceled">> \/ err = <<"DeadlineExceeded">>
    THEN err
    ELSE Wrap("filePath: copy", err)

\* os.Stat and the directory test.
SeqStat ==
    /\ seq.pc = "stat"
    /\ \E outcome \in {"ok", "stat", "dir"} :
         \/ /\ outcome = "ok"
            /\ seq' = [seq EXCEPT !.pc = "open"]
            /\ UNCHANGED faults
         \/ /\ outcome = "stat"
            /\ seq' = SeqReturn(Zero32, Wrap("file info", <<"ErrNotExist">>), "stat")
            /\ faults' = TRUE
         \/ /\ outcome = "dir"
            /\ seq' = SeqReturn(Zero32, <<"directory not regular file">>, "dir")
            /\ faults' = TRUE
    /\ UNCHANGED <<file, ctxErr, observed>>

\* os.Open; its error is returned as it is.  Then the hasher is reset.
SeqOpen ==
    /\ seq.pc = "open"
    /\ \E outcome \in {"ok", "open"} :
         \/ /\ outcome = "ok"
            /\ seq' = [seq EXCEPT !.pc = "copy", !.h = Zero32]
            /\ UNCHANGED faults
         \/ /\ outcome = "open"
            /\ seq' = SeqReturn(Zero32, <<"EACCES">>, "open")
            /\ faults' = TRUE
    /\ UNCHANGED <<file, ctxErr, observed>>

\* Mutant of ReadAllowed: the Read never looks at the token.
ReadUnchecked(c) == TRUE

\* readerCtx.Read: whether ctx.Err() lets the Read go on to the file.
ReadAllowed(c) == c = "nil"

\* One round of io.Copy(writer, NewReader(ctx, file)): readerCtx.Read, then the
\* Write of what was read to the hasher and the observers.  At the end of the
\* file the Read returns io.EOF, the copy ends and hasher.Sum32() is returned.
SeqCopy ==
    /\ seq.pc = "copy"
    /\ IF ~ReadAllowed(ctxErr)
       THEN /\ seq' = SeqReturn(Zero32, CopyError(CtxError(ctxErr)), "ctx")
            /\ UNCHANGED <<observed, faults>>
       ELSE LET n == Min(ReadBuf, fileSize - seq.pos)
                h == Update(seq.h, Slice(file, seq.pos, n))
            IN  \E outcome \in {"ok", "read", "write"} :
                  \/ /\ outcome = "ok"
                     /\ seq' = IF n = 0
                               THEN SeqReturn(seq.h, NilErr, "eof")
                               ELSE [seq EXCEPT !.pos = seq.pos + n, !.h = h]
                     /\ observed' = observed + n
                     /\ UNCHANGED faults
                  \/ /\ outcome = "read"
                     /\ seq' = SeqReturn(Zero32, CopyError(<<"EIO">>), "read")
                     /\ faults' = TRUE
                     /\ UNCHANGED observed
                  \/ /\ outcome = "write"
                     /\ n > 0
                     /\ seq' = [SeqReturn(Zero32, CopyError(<<"ErrWrite">>), "write")
                                  EXCEPT !.pos = seq.pos + n, !.h = h]
                     /\ faults' = TRUE
                     /\ UNCHANGED observed
    /\ UNCHANGED <<file, ctxErr>>

\* What GetCRC32 returns for the bytes f when the token stays live and no file
\* operation fails: the hasher's sum after the copy loop.
RECURSIVE CopyLoop(_, _, _)
CopyLoop(h, f, pos) ==
    IF pos >= Len(f) THEN h
    ELSE LET n == Min(ReadBuf, Len(f) - pos)
         IN  CHOOSE r \in {CopyLoop(c, f, pos + n) : c \in {Update(h, Slice(f, pos, n))}} :
                 TRUE

GetCRC32(f) == CopyLoop(Zero32, f, 0)

\* ------------------------------------------- the engine, seen by a verifier
\* A verifier calls the engine once per file and only looks at what the call
\* returns.  The operators below give, for a file, what a call can return.

\* The uint32 x as 8 hexadecimal digits, as a manifest or a record writes it.
Hex(x) ==
    <<x[1] \div 4096, (x[1] \div 256) % 16, (x[1] \div 16) % 16, x[1] % 16,
      x[2] \div 4096, (x[2] \div 256) % 16, (x[2] \div 16) % 16, x[2] % 16>>

EngineResult(crc, err) == [crc |-> crc, err |-> err]

\* What GetCRC32Parallel returns for the bytes f when no job fails and the
\* collection loop never takes the token's case: the fold of the chunks' sums.
GetCRC32Parallel(f) ==
    LET n == TotalChunks(Len(f))
        results == [i \in 0..(n - 1) |->
                      LET c == ChunkList(Len(f))[i + 1]
                      IN  Chunk(i, Update(Zero32, Slice(f, c.startPos, c.chunkLength)),
                                c.chunkLength)]
    IN  Fold(results, n)

\* The results of GetCRC32 on a file with bytes f.  fault tells what the file
\* system does with it: "ok", "open" (os.Open fails: permission denied) or
\* "read" (a Read fails: I/O error).  atCall and now are ctx.Err() when the call
\* is made and when it returns.  os.Open comes before the first look at the
\* token; a token that has fired before the call stops the first Read; one that
\* fires during the call stops the next Read, if there is one.
SeqResults(f, fault, atCall, now) ==
    LET normal == IF fault = "read"
                  THEN EngineResult(Zero32, CopyError(<<"EIO">>))
                  ELSE EngineResult(GetCRC32(f), NilErr)
    IN  IF fault = "open" THEN {EngineResult(Zero32, <<"EACCES">>)}
        ELSE IF atCall # "nil" THEN {EngineResult(Zero32, CopyError(CtxError(atCall)))}
        ELSE {normal} \cup
             (IF now # "nil" THEN {EngineResult(Zero32, CopyError(CtxError(now)))} ELSE {})

\* The results of GetCRC32Parallel.  An empty file has no chunk and the
\* collection loop is not entered.  Otherwise the loop's select may take the
\* token's case whenever the token has fired, and may as well take a result or
\* an error that is ready.
ParResults(f, fault, now) ==
    LET normal == CASE fault = "open" ->
                         EngineResult(Zero32, Wrap("crc32 calculation", <<"EACCES">>))
                    [] fault = "read" ->
                         EngineResult(Zero32, Wrap("crc32 calculation",
                                                   Wrap("filePath: copy", <<"EIO">>)))
                    [] OTHER -> EngineResult(GetCRC32Parallel(f), NilErr)
    IN  IF Len(f) = 0 THEN {EngineResult(Zero32, NilErr)}
        ELSE {normal} \cup
             (IF now # "nil" THEN {EngineResult(Zero32, CtxError(now))} ELSE {})

\* CheckCRC.VerifyCRC32, from the engine's result on.
VerifyCRC32(res, wantCRC) ==
    IF res.err # NilErr THEN Wrap("file: calculate crc32", res.err)
    ELSE IF res.crc # wantCRC THEN Wrap("file", <<"ErrCRCMismatch">>)
    ELSE NilErr

\* Service.useParallelRead: the switch on s.parallelFileRead.
UseParallelRead(mode, ssd) ==
    CASE mode = "Disabled" -> [val |-> FALSE, err |-> NilErr]
      [] mode = "Enabled"  -> [val |-> TRUE, err |-> NilErr]
      [] mode = "Auto"     -> [val |-> ssd, err |-> NilErr]
      [] OTHER             -> [val |-> FALSE, err |-> <<"invalid parallel read mode">>]

\* s.parallelFileRead and what utils.IsSSD answers (asked in Auto mode only).
ReadModes ==
    {<<"Disabled", FALSE>>, <<"Enabled", FALSE>>, <<"Auto", FALSE>>, <<"Auto", TRUE>>,
     <<"Invalid", FALSE>>}

\* ------------------------------------------------- sidecar (SFV) verifier
\* A manifest is the list of its entries, as sfvRegex finds them.  An entry
\* names a file: whether it exists next to the manifest, whether the release
\* tree knows it, its bytes, what the file system does when it is read, and
\* the 8 hexadecimal digits the manifest gives as its CRC32.
ManifestEntry(ex, tr, d, fl, s) ==
    [exists |-> ex, inTree |-> tr, data |-> d, fault |-> fl, crcStr |-> s]

NoSuchCRC == <<15, 15, 15, 15, 15, 15, 15, 15>>

\* The files manifests name: an empty one and one of two chunks.
SfvFiles == {FileBytes(0, 1), FileBytes(ChunkSize + 1, 1)}

ManifestEntries ==
    {ManifestEntry(FALSE, FALSE, <<>>, "ok", NoSuchCRC),
     ManifestEntry(TRUE, FALSE, <<>>, "ok", NoSuchCRC)}
    \cup {ManifestEntry(TRUE, TRUE, d, "ok", Hex(GetCRC32(d))) : d \in SfvFiles}
    \cup {ManifestEntry(TRUE, TRUE, d, "ok", NoSuchCRC) : d \in SfvFiles}
    \cup {ManifestEntry(TRUE, TRUE, d, fl, Hex(GetCRC32(d))) :
            d \in SfvFiles \ {<<>>}, fl \in {"open", "read"}}

SeqsUpTo(S, n) == UNION {[1..k -> S] : k \in 0..n}

Manifests == SeqsUpTo(ManifestEntries, MaxEntries)

Releases == SeqsUpTo(Manifests, MaxManifests)

sfvVars == <<rel, parallelFileRead, isSSD, sfv, hashed, verified, verdicts>>

\* hashed, verified and verdicts are history: the entries VerifyCRC32 was
\* called for, as <<manifest, entry>>, the error each of these calls returned,
\* and what each performSFVCheck call returned.
SfvInit ==
    /\ rel \in Releases
    /\ \E rm \in ReadModes : parallelFileRead = rm[1] /\ isSSD = rm[2]
    /\ sfv = [pc |-> "loop", m |-> 1, e |-> 1, useParallelRead |-> FALSE,
              filesFromSFV |-> <<>>, passed |-> FALSE, err |-> NilErr,
              success |-> TRUE, ret |-> NilErr, ctxAtCall |-> "nil"]
    /\ hashed = <<>>
    /\ verified = <<>>
    /\ verdicts = <<>>

\* processSFVEntry for the entries from i on: os.Stat, then the CRC is parsed.
RECURSIVE ProcessSFVEntries(_, _, _)
ProcessSFVEntries(manifest, i, files) ==
    IF i > Len(manifest) THEN [files |-> files, err |-> NilErr]
    ELSE IF ~manifest[i].exists
    THEN [files |-> <<>>, err |-> Wrap("stat file", <<"ErrNotExist">>)]
    ELSE ProcessSFVEntries(manifest, i + 1,
                           Append(files, [crc  |-> FromHex(manifest[i].crcStr),
                                          size |-> Len(manifest[i].data)]))

\* Mutant of GetFilesFromSFV: a failing os.Stat is ignored.
GetFilesFromSFVNoStat(manifest) ==
    [files |-> [i \in 1..Len(manifest) |->
                  [crc |-> FromHex(manifest[i].crcStr), size |-> Len(manifest[i].data)]],
     err   |-> NilErr]

\* getFilesFromSFV: a manifest without a matching line is invalid.
GetFilesFromSFV(manifest) ==
    IF Len(manifest) = 0
    THEN [files |-> <<>>, err |-> Wrap("ErrInvalidSfv", <<"no matches found in sfv file">>)]
    ELSE ProcessSFVEntries(manifest, 1, <<>>)

\* performSFVCheck returns (passed, err) to CheckSFV.
PerformReturn(passed, err) ==
    /\ sfv' = [sfv EXCEPT !.pc = "performed", !.passed = passed, !.err = err]
    /\ verdicts' = Append(verdicts, [m |-> sfv.m, passed |-> passed, err |-> err])

\* CheckSFV: the range loop has a next manifest, performSFVCheck is called.
SfvLoop ==
    /\ sfv.pc = "loop"
    /\ sfv.m <= Len(rel)
    /\ sfv' = [sfv EXCEPT !.pc = "useParallelRead"]
    /\ UNCHANGED <<rel, parallelFileRead, isSSD, hashed, verified, verdicts, ctxErr>>

\* performSFVCheck: s.useParallelRead.
SfvUseParallelRead ==
    /\ sfv.pc = "useParallelRead"
    /\ LET r == UseParallelRead(parallelFileRead, isSSD)
       IN  IF r.err # NilErr
           THEN PerformReturn(FALSE, r.err)
           ELSE /\ sfv' = [sfv EXCEPT !.pc = "getFiles", !.useParallelRead = r.val]
                /\ UNCHANGED verdicts
    /\ UNCHANGED <<rel, parallelFileRead, isSSD, hashed, verified, ctxErr>>

\* performSFVCheck: getFilesFromSFV, the test for an empty list, and the
\* loop's variables.
SfvGetFiles ==
    /\ sfv.pc = "getFiles"
    /\ LET r == GetFilesFromSFV(rel[sfv.m])
       IN  IF r.err # NilErr
           THEN PerformReturn(FALSE, Wrap("get files from sfv", r.err))
           ELSE IF Len(r.files) = 0
           THEN PerformReturn(FALSE, <<"ErrEmptySfv">>)
           ELSE /\ sfv' = [sfv EXCEPT !.pc = "entry", !.e = 1, !.passed = TRUE,
                                      !.filesFromSFV = r.files]
                /\ UNCHANGED verdicts
    /\ UNCHANGED <<rel, parallelFileRead, isSSD, hashed, verified, ctxErr>>

\* performSFVCheck, loop body: rel.Root.GetFileByAbsolutePath, then the checker
\* is built and VerifyCRC32 is called.
SfvGetFile ==
    /\ sfv.pc = "entry"
    /\ sfv.e <= Len(sfv.filesFromSFV)
    /\ IF ~rel[sfv.m][sfv.e].inTree
       THEN /\ PerformReturn(FALSE, Wrap("get file", <<"ErrFileNotFound">>))
            /\ UNCHANGED hashed
       ELSE /\ sfv' = [sfv EXCEPT !.pc = "verify", !.ctxAtCall = ctxErr]
            /\ hashed' = Append(hashed, <<sfv.m, sfv.e>>)
            /\ UNCHANGED verdicts
    /\ UNCHANGED <<rel, parallelFileRead, isSSD, verified, ctxErr>>

\* What the engine can return for entry e of manifest m.
EntryResults(entry, useParallelRead, atCall, now) ==
    IF useParallelRead
    THEN ParResults(entry.data, entry.fault, now)
    ELSE SeqResults(entry.data, entry.fault, atCall, now)

\* Mutant of OnVerifyError: any error ends the loop.
StopOnVerifyError(err, passed) ==
    IF err # NilErr THEN <<TRUE, FALSE>> ELSE <<FALSE, passed>>

\* Mutant of OnVerifyError: a cancellation is recorded as a failed entry.
SwallowVerifyError(err, passed) ==
    IF err # NilErr THEN <<FALSE, FALSE>> ELSE <<FALSE, passed>>

\* performSFVCheck, loop body: what is done with VerifyCRC32's error.  The
\* result is <<return now, passed>>.
OnVerifyError(err, passed) ==
    IF err # NilErr
    THEN IF ErrorsIs(err, "Canceled") \/ ErrorsIs(err, "DeadlineExceeded")
         THEN <<TRUE, FALSE>>
         ELSE <<FALSE, FALSE>>
    ELSE <<FALSE, passed>>

\* performSFVCheck, loop body: VerifyCRC32 returns.
SfvVerify ==
    /\ sfv.pc = "verify"
    /\ \E res \in EntryResults(rel[sfv.m][sfv.e], sfv.useParallelRead,
                               sfv.ctxAtCall, ctxErr) :
         \E err \in {VerifyCRC32(res, sfv.filesFromSFV[sfv.e].crc)} :
           \E on \in {OnVerifyError(err, sfv.passed)} :
             /\ verified' = Append(verified, err)
             /\ IF on[1]
                THEN PerformReturn(FALSE, err)
                ELSE /\ sfv' = [sfv EXCEPT !.pc = "entry", !.e = sfv.e + 1,
                                           !.passed = on[2]]
                     /\ UNCHANGED verdicts
    /\ UNCHANGED <<rel, parallelFileRead, isSSD, hashed, ctxErr>>

\* performSFVCheck: the loop is over, return passed, nil.
SfvEntriesDone ==
    /\ sfv.pc = "entry"
    /\ sfv.e > Len(sfv.filesFromSFV)
    /\ PerformReturn(sfv.passed, NilErr)
    /\ UNCHANGED <<rel, parallelFileRead, isSSD, hashed, verified, ctxErr>>

\* Mutant of OnPerformed: the first failed manifest ends the call.
OnPerformedStop(passed, err) ==
    IF err # NilErr
    THEN [sfv EXCEPT !.pc = "done", !.ret = Wrap("perform sfv check", err)]
    ELSE IF ~passed
    THEN [sfv EXCEPT !.pc = "done", !.ret = <<"ErrSfvValidationFailed">>]
    ELSE [sfv EXCEPT !.pc = "loop", !.m = sfv.m + 1]

\* CheckSFV, loop body after performSFVCheck: an error ends the call.
OnPerformed(passed, err) ==
    IF err # NilErr
    THEN [sfv EXCEPT !.pc = "done", !.ret = Wrap("perform sfv check", err)]
    ELSE [sfv EXCEPT !.pc = "loop", !.m = sfv.m + 1,
                     !.success = IF ~passed THEN FALSE ELSE sfv.success]

SfvPerformed ==
    /\ sfv.pc = "performed"
    /\ sfv' = OnPerformed(sfv.passed, sfv.err)
    /\ UNCHANGED <<rel, parallelFileRead, isSSD, hashed, verified, verdicts, ctxErr>>

\* CheckSFV: after the loop.
SfvFinish ==
    /\ sfv.pc = "loop"
    /\ sfv.m > Len(rel)
    /\ sfv' = [sfv EXCEPT !.pc = "done",
                          !.ret = IF ~sfv.success THEN <<"ErrSfvValidationFailed">>
                                  ELSE NilErr]
    /\ UNCHANGED <<rel, parallelFileRead, isSSD, hashed, verified, verdicts, ctxErr>>

\* The service's token is cancelled, or its deadline passes.
SfvCancel ==
    /\ sfv.pc # "done"
    /\ ctxErr = "nil"
    /\ ctxErr' \in CtxErrs
    /\ UNCHANGED sfvVars

SfvIdle ==
    /\ rel = <<>>
    /\ parallelFileRead = "Disabled"
    /\ isSSD = FALSE
    /\ sfv = [pc |-> "idle", m |-> 1, e |-> 1, useParallelRead |-> FALSE,
              filesFromSFV |-> <<>>, passed |-> FALSE, err |-> NilErr,
              success |-> TRUE, ret |-> NilErr, ctxAtCall |-> "nil"]
    /\ hashed = <<>>
    /\ verified = <<>>
    /\ verdicts = <<>>

\* ------------------------------------------- remote-record (SRR) verifier
\* A record is the list of its ArchivedFiles.  An entry gives the declared
\* size and CRC string, and what the release tree has under the entry's name:
\* whether GetFile finds it, its bytes, and what reading it does.
ArchivedFile(fnd, sz, d, fl, s) ==
    [found |-> fnd, size |-> sz, data |-> d, fault |-> fl, crc |-> s]

\* The file the records name; it has two chunks.
SrrFile == FileBytes(ChunkSize + 1, 1)

\* A CRC string that is not a hexadecimal number.
NotHex == <<16>>

ArchivedFiles ==
    {ArchivedFile(FALSE, Len(SrrFile), <<>>, "ok", Hex(GetCRC32(SrrFile))),
     ArchivedFile(TRUE, Len(SrrFile) + 1, SrrFile, "ok", Hex(GetCRC32(SrrFile))),
     ArchivedFile(TRUE, Len(SrrFile), SrrFile, "ok", Hex(GetCRC32(SrrFile))),
     ArchivedFile(TRUE, Len(SrrFile), SrrFile, "ok", NoSuchCRC),
     ArchivedFile(TRUE, Len(SrrFile), SrrFile, "ok", NotHex),
     ArchivedFile(TRUE, Len(SrrFile), SrrFile, "read", Hex(GetCRC32(SrrFile)))}

Records == SeqsUpTo(ArchivedFiles, MaxEntries)

\* What srrdb.GetInformation returns for a candidate name: an error, or a
\* record.
LookupResults ==
    {[ok |-> FALSE, files |-> <<>>]} \cup {[ok |-> TRUE, files |-> r] : r \in Records}

\* A candidate name, the name of a media file's parent directory, with what
\* srrdb.GetInformation returns for it.
Candidate(n, res) == [name |-> n, ok |-> res.ok, files |-> res.files]

\* The candidate names in the order of rel.MediaFiles, one per media file, so
\* a name may come twice; a name has one lookup result.  Names are numbered in
\* the order of their first occurrence.
Lookups ==
    {l \in SeqsUpTo({Candidate(n, res) : n \in 1..MaxCandidates, res \in LookupResults},
                    MaxCandidates) :
       /\ \A i \in 1..Len(l) :
            \/ \E j \in 1..(i - 1) : l[j].name = l[i].name
            \/ l[i].name = 1 + Cardinality({l[j].name : j \in 1..(i - 1)})
       /\ \A i, j \in 1..Len(l) : l[i].name = l[j].name => l[i] = l[j]}

srrVars == <<lookups, fastCheck, srr, bar, examined, parsed, engineCalls, engineCtx>>

\* The tracker before progress.NewProgressBar has made it.
NoBar == [created |-> FALSE, max |-> 0, pos |-> 0, cancelled |-> FALSE, finished |-> FALSE]

\* examined, parsed and engineCalls are history: the entries verifySingleSRR
\* has looked up with GetFile, those it has called strconv.ParseUint for and
\* those it has called VerifyCRC32 for, as <<record, entry>>.
SrrInit ==
    /\ lookups \in Lookups
    /\ fastCheck \in BOOLEAN
    /\ srr = [pc |-> "start", useParallelRead |-> FALSE, i |-> 1,
              srrdbReleases |-> <<>>, r |-> 1, e |-> 1, ret |-> NilErr]
    /\ bar = NoBar
    /\ examined = <<>>
    /\ parsed = <<>>
    /\ engineCalls = <<>>
    /\ engineCtx = <<>>

\* strconv.ParseUint(s, 16, 32): at most 8 hexadecimal digits fit in 32 bits.
ParseUint(s) ==
    IF Len(s) \in 1..8 /\ \A k \in 1..Len(s) : s[k] \in 0..15
    THEN [val |-> FromHex([k \in 1..8 |-> IF k <= 8 - Len(s) THEN 0
                                          ELSE s[k - (8 - Len(s))]]),
          err |-> NilErr]
    ELSE [val |-> Zero32, err |-> <<"ErrSyntax">>]

\* srrdb.TotalSize of a record, and the sum over records.
RECURSIVE TotalSize(_)
TotalSize(files) ==
    IF files = <<>> THEN 0 ELSE Head(files).size + TotalSize(Tail(files))

RECURSIVE TotalSizes(_)
TotalSizes(records) ==
    IF records = <<>> THEN 0 ELSE TotalSize(Head(records)) + TotalSizes(Tail(records))

\* CheckSRR: s.useParallelRead.
SrrUseParallelRead ==
    /\ srr.pc = "start"
    /\ LET u == UseParallelRead(parallelFileRead, isSSD)
       IN  srr' = IF u.err # NilErr
                  THEN [srr EXCEPT !.pc = "done", !.ret = u.err]
                  ELSE [srr EXCEPT !.pc = "fetch", !.useParallelRead = u.val]
    /\ UNCHANGED <<lookups, fastCheck, bar, examined, parsed, engineCalls, engineCtx, parallelFileRead, isSSD,
                 ctxErr>>

\* A loop body that keeps what a failed lookup returned.
FetchStepKeepFailed(releases, c) == Append(releases, c.files)

\* fetchSRRInformation, loop body, on the list of records: a failed lookup is
\* logged and skipped, a record is appended.
FetchStep(releases, c) ==
    IF ~c.ok THEN releases ELSE Append(releases, c.files)

\* fetchSRRInformation, loop body.
SrrLookup ==
    /\ srr.pc = "fetch"
    /\ srr.i <= Len(lookups)
    /\ srr' = [srr EXCEPT !.i = srr.i + 1,
                          !.srrdbReleases = FetchStep(srr.srrdbReleases, lookups[srr.i])]
    /\ UNCHANGED <<lookups, fastCheck, bar, examined, parsed, engineCalls, engineCtx, parallelFileRead, isSSD,
                 ctxErr>>

\* fetchSRRInformation returns; CheckSRR sums the sizes and makes the tracker.
SrrFetched ==
    /\ srr.pc = "fetch"
    /\ srr.i > Len(lookups)
    /\ IF Len(srr.srrdbReleases) = 0
       THEN /\ srr' = [srr EXCEPT !.pc = "done", !.ret = <<"ErrNoSRRFile">>]
            /\ UNCHANGED bar
       ELSE /\ srr' = [srr EXCEPT !.pc = "entry", !.r = 1, !.e = 1]
            /\ bar' = [NoBar EXCEPT !.created = TRUE,
                                    !.max = TotalSizes(srr.srrdbReleases)]
    /\ UNCHANGED <<lookups, fastCheck, examined, parsed, engineCalls, engineCtx, parallelFileRead, isSSD,
                 ctxErr>>

\* Mutant of EntryStage: fast check is not looked at.
EntryStageFull(fs) ==
    IF ~fs.found THEN "getFile"
    ELSE IF Len(fs.data) # fs.size THEN "size"
    ELSE IF ParseUint(fs.crc).err # NilErr THEN "parse"
    ELSE "verify"

\* verifySingleSRR, loop body: the statement at which the loop body ends for
\* the entry fs: the failing GetFile, the size test, the fast check's continue,
\* the failing ParseUint, or VerifyCRC32.
EntryStage(fs) ==
    IF ~fs.found THEN "getFile"
    ELSE IF Len(fs.data) # fs.size THEN "size"
    ELSE IF fastCheck THEN "fast"
    ELSE IF ParseUint(fs.crc).err # NilErr THEN "parse"
    ELSE "verify"

\* verifySingleSRR, loop body, for the entry fs: the error it returns, nil when
\* the entry passes.  Any error of VerifyCRC32 becomes a CRC mismatch.
VerifyEntry(fs, res) ==
    CASE EntryStage(fs) = "getFile" -> Wrap("get file", <<"ErrFileNotFound">>)
      [] EntryStage(fs) = "size" -> Wrap("ErrSrrValidationFailed", <<"size mismatch">>)
      [] EntryStage(fs) = "fast" -> NilErr
      [] EntryStage(fs) = "parse" -> Wrap("parse crc", ParseUint(fs.crc).err)
      [] OTHER -> IF VerifyCRC32(res, ParseUint(fs.crc).val) # NilErr
                  THEN Wrap("ErrSrrValidationFailed", <<"crc mismatch">>)
                  ELSE NilErr

\* What the entry does to the tracker: fast check sets it to the file's size;
\* otherwise the engine writes to it the bytes it hashes.
BarAfter(fs, res) ==
    CASE EntryStage(fs) = "fast" -> [bar EXCEPT !.pos = Len(fs.data)]
      [] EntryStage(fs) = "verify" /\ res.err = NilErr ->
           [bar EXCEPT !.pos = bar.pos + Len(fs.data)]
      [] OTHER -> bar

\* Mutant of OnEntry: a failed entry is passed over.
OnEntryContinue(err, b) ==
    <<[srr EXCEPT !.e = srr.e + 1], b>>

\* CheckSRR after verifySingleSRR's loop body: an error ends verifySingleSRR and
\* CheckSRR, which cancels the tracker.  The result is <<srr, bar>>.
OnEntry(err, b) ==
    IF err # NilErr
    THEN <<[srr EXCEPT !.pc = "done", !.ret = Wrap("verify srr", err)],
           [b EXCEPT !.cancelled = TRUE]>>
    ELSE <<[srr EXCEPT !.e = srr.e + 1], b>>

\* The engine's results for the entry: the checker is built without a context,
\* so the token is context.Background().
SrrResults(fs) ==
    IF srr.useParallelRead
    THEN ParResults(fs.data, fs.fault, "nil")
    ELSE SeqResults(fs.data, fs.fault, "nil", "nil")

\* verifySingleSRR, loop body.
SrrEntry ==
    /\ srr.pc = "entry"
    /\ srr.r <= Len(srr.srrdbReleases)
    /\ srr.e <= Len(srr.srrdbReleases[srr.r])
    /\ \E fs \in {srr.srrdbReleases[srr.r][srr.e]} :
         \E res \in SrrResults(fs) :
           \E on \in {OnEntry(VerifyEntry(fs, res), BarAfter(fs, res))} :
             /\ srr' = on[1]
             /\ bar' = on[2]
    /\ examined' = Append(examined, <<srr.r, srr.e>>)
    /\ \E stage \in {EntryStage(srr.srrdbReleases[srr.r][srr.e])} :
         /\ parsed' = IF stage \in {"parse", "verify"}
                      THEN Append(parsed, <<srr.r, srr.e>>) ELSE parsed
         /\ engineCalls' = IF stage = "verify"
                           THEN Append(engineCalls, <<srr.r, srr.e>>) ELSE engineCalls
         /\ engineCtx' = IF stage = "verify"
                         THEN Append(engineCtx, ctxErr) ELSE engineCtx
    /\ UNCHANGED <<lookups, fastCheck, parallelFileRead, isSSD, ctxErr>>

\* verifySingleSRR returns nil; CheckSRR goes on with the next record.
SrrRecordDone ==
    /\ srr.pc = "entry"
    /\ srr.r <= Len(srr.srrdbReleases)
    /\ srr.e > Len(srr.srrdbReleases[srr.r])
    /\ srr' = [srr EXCEPT !.r = srr.r + 1, !.e = 1]
    /\ UNCHANGED <<lookups, fastCheck, bar, examined, parsed, engineCalls, engineCtx, parallelFileRead, isSSD,
                 ctxErr>>

\* CheckSRR after the loop: bar.Finish() and return nil.
SrrFinish ==
    /\ srr.pc = "entry"
    /\ srr.r > Len(srr.srrdbReleases)
    /\ bar' = [bar EXCEPT !.finished = TRUE]
    /\ srr' = [srr EXCEPT !.pc = "done", !.ret = NilErr]
    /\ UNCHANGED <<lookups, fastCheck, examined, parsed, engineCalls, engineCtx, parallelFileRead, isSSD,
                 ctxErr>>

\* The service's token is cancelled, or its deadline passes, while CheckSRR
\* runs.
SrrCancel ==
    /\ srr.pc # "done"
    /\ ctxErr = "nil"
    /\ ctxErr' \in CtxErrs
    /\ UNCHANGED <<srrVars, parallelFileRead, isSSD>>

SrrIdle ==
    /\ lookups = <<>>
    /\ fastCheck = FALSE
    /\ srr = [pc |-> "idle", useParallelRead |-> FALSE, i |-> 1,
              srrdbReleases |-> <<>>, r |-> 1, e |-> 1, ret |-> NilErr]
    /\ bar = NoBar
    /\ examined = <<>>
    /\ parsed = <<>>
    /\ engineCalls = <<>>
    /\ engineCtx = <<>>

\* ---------------------------------------------- archive-set (zip) validator
\* The content of an entry of a container, as far as the validator looks at
\* it: id tells contents apart and is 0 for the empty content; matches tells
\* whether archiveCountPattern finds a counter in it; m1 and m2 are the digit
\* strings of the two groups of its first match.
Content(id, matches, m1, m2) == [id |-> id, matches |-> matches, m1 |-> m1, m2 |-> m2]

EmptyContent == Content(0, FALSE, <<>>, <<>>)

\* A digit string too long for an int.
HugeNumber == [i \in 1..20 |-> 9]

RECURSIVE DigitsValue(_)
DigitsValue(ds) ==
    IF ds = <<>> THEN 0
    ELSE DigitsValue(SubSeq(ds, 1, Len(ds) - 1)) * 10 + ds[Len(ds)]

\* strconv.Atoi on a string of digits: one of 20 digits or more is out of
\* range.  The digit strings of the model have at most 2 digits, or 20.
Atoi(ds) ==
    IF Len(ds) >= 20 THEN [val |-> 0, err |-> <<"ErrRange">>]
    ELSE [val |-> DigitsValue(ds), err |-> NilErr]

\* type archiveCount struct {current; total}
ArchiveCount(c, t) == [current |-> c, total |-> t]

\* processDizContent.
ProcessDizContent(content) ==
    IF ~content.matches
    THEN [count |-> ArchiveCount(0, 0), err |-> <<"ErrNoFileCountInDiz">>]
    ELSE IF Atoi(content.m1).err # NilErr
    THEN [count |-> ArchiveCount(0, 0),
          err |-> Wrap("convert string to int", Atoi(content.m1).err)]
    ELSE IF Atoi(content.m2).err # NilErr
    THEN [count |-> ArchiveCount(0, 0),
          err |-> Wrap("convert string to int", Atoi(content.m2).err)]
    ELSE [count |-> ArchiveCount(Atoi(content.m1).val, Atoi(content.m2).val),
          err |-> NilErr]

\* An entry of a container (zip.File): its name, its UncompressedSize64,
\* whether it can be opened and read, and its content.
ZipEntry(name, size, readable, content) ==
    [name |-> name, size |-> size, readable |-> readable, content |-> content]

\* strings.ToLower(filepath.Ext(zipEntry.Name)) for the names of the model.
Ext(name) ==
    CASE name \in {"file_id.diz", "FILE_ID.DIZ"} -> ".diz"
      [] name = "a.nfo" -> ".nfo"
      [] name = "a.rar" -> ".rar"
      [] name = "a.r00" -> ".r00"
      [] OTHER -> ".txt"

\* rarFilesPattern.MatchString(ext) for the extensions of the model.
RarFilesPattern(ext) == ext \in {".rar", ".r00"}

DizEntries ==
    {ZipEntry("file_id.diz", 1, TRUE, Content(3, TRUE, <<1>>, <<t>>)) : t \in 0..MaxTotal}
    \cup {ZipEntry("file_id.diz", 1, TRUE, Content(3, TRUE, <<0>>, <<2>>)),
          ZipEntry("FILE_ID.DIZ", 1, TRUE, Content(3, TRUE, <<0, 1>>, <<0, MaxTotal>>)),
          ZipEntry("file_id.diz", 1, TRUE, Content(3, TRUE, <<1>>, HugeNumber)),
          ZipEntry("file_id.diz", 1, TRUE, Content(1, FALSE, <<>>, <<>>)),
          ZipEntry("file_id.diz", 1, FALSE, EmptyContent)}

NfoEntries ==
    {ZipEntry("a.nfo", 0, TRUE, EmptyContent),
     ZipEntry("a.nfo", 1, TRUE, Content(1, FALSE, <<>>, <<>>)),
     ZipEntry("a.nfo", 1, TRUE, Content(2, FALSE, <<>>, <<>>))}

RarEntries ==
    {ZipEntry("a.rar", sz, TRUE, Content(1, FALSE, <<>>, <<>>)) : sz \in 0..MaxSize}
    \cup {ZipEntry("a.r00", 1, TRUE, Content(1, FALSE, <<>>, <<>>)),
          ZipEntry("a.txt", 1, TRUE, Content(1, FALSE, <<>>, <<>>))}

\* zipReader.File of a container (input).
Containers == SeqsUpTo(DizEntries \cup NfoEntries \cup RarEntries, MaxZipEntries)

\* type archiveInfo struct {name; size; current; total}
ArchiveInfo(name, size, current, total) ==
    [name |-> name, size |-> size, current |-> current, total |-> total]

ZeroArchiveInfo == ArchiveInfo("", 0, 0, 0)

\* NFOFile{Name, Content}, and its zero value.
NFOFile(name, content) == [name |-> name, content |-> content]

ZeroNFOFile == NFOFile("", EmptyContent)

\* readInnerZip.
ReadInnerZip(zipEntry) ==
    IF zipEntry.readable
    THEN [content |-> zipEntry.content, err |-> NilErr]
    ELSE [content |-> EmptyContent, err |-> Wrap("open file", <<"EIO">>)]

\* A processZipContents loop body that goes on reading .nfo entries after the
\* first non-empty one.
ScanEntryLastNfo(st, zipEntry) ==
    IF st.err # NilErr THEN st
    ELSE IF Ext(zipEntry.name) = ".diz"
    THEN IF ProcessDizContent(ReadInnerZip(zipEntry).content).err # NilErr
         THEN [st EXCEPT !.err = ProcessDizContent(ReadInnerZip(zipEntry).content).err]
         ELSE IF ProcessDizContent(ReadInnerZip(zipEntry).content).count.current > 0
         THEN [st EXCEPT !.archiveCount =
                           ProcessDizContent(ReadInnerZip(zipEntry).content).count]
         ELSE st
    ELSE IF Ext(zipEntry.name) = ".nfo" /\ st.extractNFO
    THEN IF ReadInnerZip(zipEntry).content.id # 0
         THEN [st EXCEPT !.nfoFile = NFOFile(zipEntry.name, ReadInnerZip(zipEntry).content)]
         ELSE st
    ELSE IF RarFilesPattern(Ext(zipEntry.name))
    THEN [st EXCEPT !.archive = ArchiveInfo(zipEntry.name, zipEntry.size, 0, 0)]
    ELSE st

\* processZipContents, loop body, on the locals st; st.err is the error the
\* function returns from inside the loop.
ScanEntry(st, zipEntry) ==
    IF st.err # NilErr THEN st
    ELSE IF Ext(zipEntry.name) = ".diz"
    THEN IF ReadInnerZip(zipEntry).err # NilErr
         THEN [st EXCEPT !.err = ReadInnerZip(zipEntry).err]
         ELSE IF ProcessDizContent(ReadInnerZip(zipEntry).content).err # NilErr
         THEN [st EXCEPT !.err = ProcessDizContent(ReadInnerZip(zipEntry).content).err]
         ELSE IF ProcessDizContent(ReadInnerZip(zipEntry).content).count.current > 0
         THEN [st EXCEPT !.archiveCount =
                           ProcessDizContent(ReadInnerZip(zipEntry).content).count]
         ELSE st
    ELSE IF Ext(zipEntry.name) = ".nfo" /\ st.extractNFO
    THEN IF ReadInnerZip(zipEntry).err # NilErr
         THEN [st EXCEPT !.err = ReadInnerZip(zipEntry).err]
         ELSE IF ReadInnerZip(zipEntry).content.id # 0
         THEN [st EXCEPT !.nfoFile = NFOFile(zipEntry.name, ReadInnerZip(zipEntry).content),
                         !.extractNFO = FALSE]
         ELSE st
    ELSE IF RarFilesPattern(Ext(zipEntry.name))
    THEN [st EXCEPT !.archive = ArchiveInfo(zipEntry.name, zipEntry.size, 0, 0)]
    ELSE st

RECURSIVE ScanEntries(_, _)
ScanEntries(st, entries) ==
    IF entries = <<>> THEN st
    ELSE CHOOSE r \in {ScanEntries(t, Tail(entries)) : t \in {ScanEntry(st, Head(entries))}} :
             TRUE

\* What processZipContents returns: archiveInfo, NFOFile, error.
ContentsResult(archive, nfo, err) == [archive |-> archive, nfo |-> nfo, err |-> err]

\* A processZipContents that looks for the fragment before the counter.
ProcessZipContentsFragmentFirst(entries, extractNFO) ==
    CHOOSE r \in
      {IF st.err # NilErr
       THEN ContentsResult(ZeroArchiveInfo, ZeroNFOFile, st.err)
       ELSE IF st.archive = ZeroArchiveInfo
       THEN ContentsResult(ZeroArchiveInfo, ZeroNFOFile, <<"ErrNoArchiveInZip">>)
       ELSE IF st.archiveCount.current = 0 \/ st.archiveCount.total = 0
       THEN ContentsResult(ZeroArchiveInfo, ZeroNFOFile, <<"ErrNoFileCountInDiz">>)
       ELSE ContentsResult([st.archive EXCEPT !.current = st.archiveCount.current,
                                              !.total = st.archiveCount.total],
                           st.nfoFile, NilErr) :
       st \in {ScanEntries([archiveCount |-> ArchiveCount(0, 0),
                            archive |-> ZeroArchiveInfo, nfoFile |-> ZeroNFOFile,
                            extractNFO |-> extractNFO, err |-> NilErr], entries)}} : TRUE

\* processZipContents on the entries of a container.
ProcessZipContents(entries, extractNFO) ==
    CHOOSE r \in
      {IF st.err # NilErr
       THEN ContentsResult(ZeroArchiveInfo, ZeroNFOFile, st.err)
       ELSE IF st.archiveCount.current = 0 \/ st.archiveCount.total = 0
       THEN ContentsResult(ZeroArchiveInfo, ZeroNFOFile, <<"ErrNoFileCountInDiz">>)
       ELSE IF st.archive = ZeroArchiveInfo
       THEN ContentsResult(ZeroArchiveInfo, ZeroNFOFile, <<"ErrNoArchiveInZip">>)
       ELSE ContentsResult([st.archive EXCEPT !.current = st.archiveCount.current,
                                              !.total = st.archiveCount.total],
                           st.nfoFile, NilErr) :
       st \in {ScanEntries([archiveCount |-> ArchiveCount(0, 0),
                            archive |-> ZeroArchiveInfo, nfoFile |-> ZeroNFOFile,
                            extractNFO |-> extractNFO, err |-> NilErr], entries)}} : TRUE

\* type archiveResult struct {archives; expectedTotal; nfoFile}
ArchiveResult(archives, expectedTotal, nfoFile) ==
    [archives |-> archives, expectedTotal |-> expectedTotal, nfoFile |-> nfoFile]

ZeroArchiveResult == ArchiveResult(<<>>, 0, ZeroNFOFile)

\* A validateArchiveCollection without the count test.
ValidateSizesOnly(result) ==
    IF Cardinality({result.archives[i].size : i \in 1..Len(result.archives)}) > 2
    THEN Wrap("ErrZipValidationFailed", <<"more than 2 different archive sizes">>)
    ELSE NilErr

\* validateArchiveCollection.
ValidateArchiveCollection(result) ==
    IF Len(result.archives) # result.expectedTotal
    THEN Wrap("ErrZipValidationFailed", <<"expected archives, got">>)
    ELSE IF Cardinality({result.archives[i].size : i \in 1..Len(result.archives)}) > 2
    THEN Wrap("ErrZipValidationFailed", <<"more than 2 different archive sizes">>)
    ELSE NilErr

\* An update of totalExpectedFiles that takes every container's total.
LastTotalWins(totalExpectedFiles, total) == total

\* processZipFiles: if totalExpectedFiles == 0 { totalExpectedFiles = archiveInfo.total }
TotalExpectedFiles(totalExpectedFiles, total) ==
    IF totalExpectedFiles = 0 THEN total ELSE totalExpectedFiles

zipVars == <<zip, zipReader>>

\* processZipFiles is called on zip.n container paths; the containers
\* themselves are input that is read when they are opened.
ZipStart(n) ==
    [pc |-> "files", n |-> n, idx |-> 1, nfoFile |-> ZeroNFOFile, archives |-> <<>>,
     totalExpectedFiles |-> 0,
     contents |-> ContentsResult(ZeroArchiveInfo, ZeroNFOFile, NilErr),
     result |-> ZeroArchiveResult, err |-> NilErr]

ZipInit ==
    /\ zip \in {ZipStart(n) : n \in 0..MaxContainers}
    /\ zipReader = <<>>

\* processZipFiles, loop body: zip.OpenReader, then processZipContents on the
\* container.  A file that is no zip archive ends processZipFiles.
ZipOpenReader ==
    /\ zip.pc = "files"
    /\ zip.idx <= zip.n
    /\ \/ /\ zip' = [zip EXCEPT !.pc = "failed", !.result = ZeroArchiveResult,
                                !.err = Wrap("read zip file", <<"ErrFormat">>)]
          /\ zipReader' = <<>>
       \/ \E c \in Containers :
            /\ zipReader' = c
            /\ zip' = [zip EXCEPT
                         !.pc = "contents",
                         !.contents = ProcessZipContents(c, zip.nfoFile.content.id = 0)]

\* The nfoFile local of processZipFiles after a container was read: the first
\* non-empty entry is kept.
KeepFirstNfo(nfoFile, nfo) ==
    IF nfoFile.content.id = 0 /\ nfo.content.id # 0 THEN nfo ELSE nfoFile

\* processZipFiles, loop body, after processZipContents has returned and closed
\* the container.
ZipContents ==
    /\ zip.pc = "contents"
    /\ zip' = IF zip.contents.err # NilErr
              THEN [zip EXCEPT !.pc = "failed", !.result = ZeroArchiveResult,
                               !.err = zip.contents.err]
              ELSE [zip EXCEPT
                      !.pc = "files",
                      !.idx = zip.idx + 1,
                      !.nfoFile = KeepFirstNfo(zip.nfoFile, zip.contents.nfo),
                      !.totalExpectedFiles =
                          TotalExpectedFiles(zip.totalExpectedFiles, zip.contents.archive.total),
                      !.archives = Append(zip.archives, zip.contents.archive)]
    /\ zipReader' = <<>>

\* processZipFiles returns its result.
ZipFilesDone ==
    /\ zip.pc = "files"
    /\ zip.idx > zip.n
    /\ zip' = [zip EXCEPT !.pc = "processed",
                          !.result = ArchiveResult(zip.archives, zip.totalExpectedFiles,
                                                   zip.nfoFile)]
    /\ UNCHANGED zipReader

\* validateArchiveCollection on the result.
ZipValidate ==
    /\ zip.pc = "processed"
    /\ zip' = [zip EXCEPT !.pc = "validated", !.err = ValidateArchiveCollection(zip.result)]
    /\ UNCHANGED zipReader

ZipIdle ==
    /\ zip = [ZipStart(0) EXCEPT !.pc = "idle"]
    /\ zipReader = <<>>

\* ---------------------------------------------------------------- CheckZip
\* Most volumes of a set (bound).
MaxVolumes == 2

\* A directory of the release tree: where it is, and Info.Name, its base name.
Dir(path, name) == [path |-> path, name |-> name]

\* The directories that hold zip files (input); two of them share a base name.
Dirs == {Dir(1, "CD1"), Dir(2, "CD1"), Dir(3, "CD2")}

\* rel.Root.GetFiles(".zip"), as the parent directory of each file (input).
ZipFileLists == SeqsUpTo(Dirs, MaxContainers)

\* The declared counters [current/total] of the volumes.
VolumeCounters == {ct \in (1..MaxVolumes) \X (1..MaxVolumes) : ct[1] <= ct[2]}

\* The .nfo entries of a volume, in archive order.
VolumeNfos ==
    {<<>>,
     <<ZipEntry("a.nfo", 1, TRUE, Content(1, FALSE, <<>>, <<>>))>>,
     <<ZipEntry("a.nfo", 0, TRUE, EmptyContent),
       ZipEntry("a.nfo", 1, TRUE, Content(2, FALSE, <<>>, <<>>)),
       ZipEntry("a.nfo", 1, TRUE, Content(1, FALSE, <<>>, <<>>))>>}

\* A zip file on disk: whether zip.OpenReader accepts it, and its entries.
ZipFile(isZip, entries) == [isZip |-> isZip, entries |-> entries]

\* A well-formed volume: a counter, .nfo entries and one fragment.
Volume(current, total, size, nfos) ==
    ZipFile(TRUE,
            <<ZipEntry("file_id.diz", 1, TRUE, Content(3, TRUE, <<current>>, <<total>>))>>
            \o nfos
            \o <<ZipEntry("a.rar", size, TRUE, Content(1, FALSE, <<>>, <<>>))>>)

\* The zip files of the releases (input): volumes, a container without a
\* counter, and a file that is no zip archive.
ZipFiles ==
    {Volume(ct[1], ct[2], sz, nfos) : ct \in VolumeCounters, sz \in 1..MaxSize,
                                      nfos \in VolumeNfos}
    \cup {ZipFile(TRUE, <<ZipEntry("a.rar", 1, TRUE, Content(1, FALSE, <<>>, <<>>))>>),
          ZipFile(FALSE, <<>>)}

\* processZipFiles: the locals before the loop.
ZipLocals == [nfoFile |-> ZeroNFOFile, archives |-> <<>>, totalExpectedFiles |-> 0]

\* processZipFiles: the loop from locals st over the remaining files.
RECURSIVE ProcessZipFilesFrom(_, _)
ProcessZipFilesFrom(st, files) ==
    IF files = <<>>
    THEN [result |-> ArchiveResult(st.archives, st.totalExpectedFiles, st.nfoFile),
          err |-> NilErr]
    ELSE IF ~Head(files).isZip
    THEN [result |-> ZeroArchiveResult, err |-> Wrap("read zip file", <<"ErrFormat">>)]
    ELSE \* the call is forced to a value before the recursion goes on
         CHOOSE r \in
           {IF c.err # NilErr
            THEN [result |-> ZeroArchiveResult, err |-> c.err]
            ELSE ProcessZipFilesFrom(
                   [nfoFile |-> KeepFirstNfo(st.nfoFile, c.nfo),
                    archives |-> Append(st.archives, c.archive),
                    totalExpectedFiles |->
                        TotalExpectedFiles(st.totalExpectedFiles, c.archive.total)],
                   Tail(files))
            : c \in {ProcessZipContents(Head(files).entries, st.nfoFile.content.id = 0)}} :
           TRUE

\* processZipFiles(files).
ProcessZipFiles(files) == ProcessZipFilesFrom(ZipLocals, files)

\* The rel.NFO a release may hold before CheckZip: nil (the zero value here) or
\* the .nfo file found in the release tree.
TreeNFO == NFOFile("tree.nfo", Content(4, FALSE, <<>>, <<>>))

\* CheckZip, first loop: the indices of the zip files under each key
\* file.Parent.Info.Name.
ZipFilesByDir(files) ==
    [dirName \in {files[i].name : i \in 1..Len(files)} |->
        SelectSeq([i \in 1..Len(files) |-> i], LAMBDA i : files[i].name = dirName)]

checkZipVars == <<zipFiles, relNFO, checkZip>>

\* CheckZip before its first statement.  captured is history: the nfoFile of
\* the results of the directories accepted so far.
CheckZipStart(extractNFO) ==
    [pc |-> "start", extractNFO |-> extractNFO, zipFilesByDir |-> <<>>, todo |-> {}, dir |-> "", files |-> <<>>,
     nfoFile |-> ZeroNFOFile, result |-> ZeroArchiveResult, captured |-> {},
     err |-> NilErr]

CheckZipInit ==
    /\ zipFiles \in ZipFileLists
    /\ relNFO \in {ZeroNFOFile, TreeNFO}
    /\ checkZip \in {CheckZipStart(extractNFO) : extractNFO \in BOOLEAN}

\* CheckZip, first loop: group the zip files by the name of their directory.
CheckZipGroup ==
    /\ checkZip.pc = "start"
    /\ checkZip' = [checkZip EXCEPT !.pc = "range",
                                    !.zipFilesByDir = ZipFilesByDir(zipFiles),
                                    !.todo = DOMAIN ZipFilesByDir(zipFiles)]
    /\ UNCHANGED <<zipFiles, relNFO>>

\* CheckZip, second loop: the next key of the map, in any order, and
\* processZipFiles on its files, whose contents are read from disk here.
CheckZipFiles ==
    /\ checkZip.pc = "range"
    /\ \E dir \in checkZip.todo :
         \E files \in [1..Len(checkZip.zipFilesByDir[dir]) -> ZipFiles] :
           \E r \in {ProcessZipFiles(files)} :
             checkZip' = IF r.err # NilErr
                         THEN [checkZip EXCEPT !.pc = "returned", !.dir = dir,
                                               !.files = <<>>,
                                               !.result = r.result, !.err = r.err]
                         ELSE [checkZip EXCEPT !.pc = "validate", !.dir = dir,
                                               !.files = files, !.result = r.result]
    /\ UNCHANGED <<zipFiles, relNFO>>

\* CheckZip, second loop: validateArchiveCollection(result).
CheckZipValidate ==
    /\ checkZip.pc = "validate"
    /\ \E err \in {ValidateArchiveCollection(checkZip.result)} :
         checkZip' = IF err # NilErr
                     THEN [checkZip EXCEPT !.pc = "returned", !.files = <<>>, !.err = err]
                     ELSE [checkZip EXCEPT
                             !.pc = "range", !.files = <<>>,
                             !.todo = checkZip.todo \ {checkZip.dir},
                             !.captured =
                                 checkZip.captured
                                 \cup (IF checkZip.result.nfoFile.content.id # 0
                                       THEN {checkZip.result.nfoFile} ELSE {})]
    /\ UNCHANGED <<zipFiles, relNFO>>

\* CheckZip after the second loop: rel.NFO from the local nfoFile, return nil.
CheckZipReturn ==
    /\ checkZip.pc = "range"
    /\ checkZip.todo = {}
    /\ relNFO' = IF checkZip.extractNFO /\ checkZip.nfoFile.content.id # 0
                 THEN checkZip.nfoFile ELSE relNFO
    /\ checkZip' = [checkZip EXCEPT !.pc = "returned", !.err = NilErr]
    /\ UNCHANGED zipFiles

CheckZipIdle ==
    /\ zipFiles = <<>>
    /\ relNFO = ZeroNFOFile
    /\ checkZip = [CheckZipStart(FALSE) EXCEPT !.pc = "idle"]

\* ------------------------------------------------------------------ GetPre
\* len(preServices): searchPreNet and searchXREL.
NumSources == 2

Sources == 1..NumSources

\* A *Pre, by the source it came from; nil is NoPre.
NoPre == 0

\* What a searchFunc returns: a result and no error, or no result and an error.
SearchResults(i) == {[pre |-> i, err |-> NilErr], [pre |-> NoPre, err |-> <<"search failed">>]}

preVars == <<getPre, preCtx, searchers, closer, resultClosed>>

\* GetPre after context.WithTimeout and the make of resultChan.
GetPreInit ==
    /\ getPre = [pc |-> "spawn", n |-> 0, ret |-> NoPre]
    /\ preCtx = "nil"
    /\ searchers = [i \in Sources |-> [pc |-> "unborn", pre |-> NoPre, err |-> NilErr]]
    /\ closer = "unborn"
    /\ resultClosed = FALSE

\* for _, searchFunc := range preServices { wg.Go(...) }
GetPreSpawn ==
    /\ getPre.pc = "spawn"
    /\ getPre.n < NumSources
    /\ getPre' = [getPre EXCEPT !.n = getPre.n + 1]
    /\ searchers' = [searchers EXCEPT ![getPre.n + 1].pc = "search"]
    /\ UNCHANGED <<preCtx, closer, resultClosed>>

\* go func() { wg.Wait(); close(resultChan) }()
GetPreSpawnCloser ==
    /\ getPre.pc = "spawn"
    /\ getPre.n = NumSources
    /\ getPre' = [getPre EXCEPT !.pc = "select"]
    /\ closer' = "wait"
    /\ UNCHANGED <<preCtx, searchers, resultClosed>>

\* The timer of context.WithTimeout fires.
PreTimeout ==
    /\ preCtx = "nil"
    /\ getPre.pc # "returned"
    /\ preCtx' = "DeadlineExceeded"
    /\ UNCHANGED <<getPre, searchers, closer, resultClosed>>

\* A search goroutine: searchFunc(ctx, name) returns; the goroutine returns
\* when the token has fired, on an error and on a nil result.
SearchReturn(i) ==
    /\ searchers[i].pc = "search"
    /\ \E r \in SearchResults(i) :
         searchers' = [searchers EXCEPT
                         ![i] = [pc |-> IF preCtx # "nil" \/ r.err # NilErr \/ r.pre = NoPre
                                        THEN "exit" ELSE "send",
                                 pre |-> r.pre, err |-> r.err]]
    /\ UNCHANGED <<getPre, preCtx, closer, resultClosed>>

\* A search goroutine that sends its result without watching the token.
SearcherNeverGivesUp(i) ==
    /\ FALSE
    /\ UNCHANGED preVars

\* A search goroutine, select: case <-ctx.Done().
SearcherCtxDone(i) ==
    /\ searchers[i].pc = "send"
    /\ preCtx # "nil"
    /\ searchers' = [searchers EXCEPT ![i].pc = "exit"]
    /\ UNCHANGED <<getPre, preCtx, closer, resultClosed>>

\* resultChan is unbuffered: the send of a search goroutine and the receive of
\* GetPre's select happen together.
GetPreRecv(i) ==
    /\ searchers[i].pc = "send"
    /\ getPre.pc = "select"
    /\ searchers' = [searchers EXCEPT ![i].pc = "exit"]
    /\ getPre' = [getPre EXCEPT !.pc = "defer", !.ret = searchers[i].pre]
    /\ UNCHANGED <<preCtx, closer, resultClosed>>

\* The closing goroutine: wg.Wait() returns, close(resultChan).
CloserClose ==
    /\ closer = "wait"
    /\ \A i \in Sources : searchers[i].pc = "exit"
    /\ closer' = "exit"
    /\ resultClosed' = TRUE
    /\ UNCHANGED <<getPre, preCtx, searchers>>

\* GetPre, select: the receive from the closed resultChan.
GetPreRecvClosed ==
    /\ getPre.pc = "select"
    /\ resultClosed
    /\ getPre' = [getPre EXCEPT !.pc = "defer", !.ret = NoPre]
    /\ UNCHANGED <<preCtx, searchers, closer, resultClosed>>

\* GetPre, select: case <-ctx.Done().
GetPreCtxDone ==
    /\ getPre.pc = "select"
    /\ preCtx # "nil"
    /\ getPre' = [getPre EXCEPT !.pc = "defer", !.ret = NoPre]
    /\ UNCHANGED <<preCtx, searchers, closer, resultClosed>>

\* GetPre returns: the deferred cancel().
GetPreCancel ==
    /\ getPre.pc = "defer"
    /\ getPre' = [getPre EXCEPT !.pc = "returned"]
    /\ preCtx' = IF preCtx = "nil" THEN "Canceled" ELSE preCtx
    /\ UNCHANGED <<searchers, closer, resultClosed>>

GetPreIdle ==
    /\ getPre = [pc |-> "idle", n |-> 0, ret |-> NoPre]
    /\ preCtx = "nil"
    /\ searchers = [i \in Sources |-> [pc |-> "unborn", pre |-> NoPre, err |-> NilErr]]
    /\ closer = "unborn"
    /\ resultClosed = FALSE

\* ------------------------------------------------------- specifications
\* A component that a specification does not run stays in its idle state.
ParIdle ==
    /\ numWorkers = 1
    /\ started = FALSE
    /\ orch = [pc |-> "idle", checkedLength |-> 0, results |-> <<>>,
               retCRC |-> Zero32, retErr |-> NilErr, ctxAtCall |-> "nil"]
    /\ jobChan = <<>>
    /\ jobClosed = FALSE
    /\ prodIdx = 0
    /\ wk = <<>>
    /\ resultChan = <<>>
    /\ slotWrites = <<>>
    /\ errRecv = <<>>

SeqIdle ==
    seq = [pc |-> "idle", pos |-> 0, h |-> Zero32, retCRC |-> Zero32,
           retErr |-> NilErr, ctxAtCall |-> "nil", cause |-> "none"]

vars == <<sharedVars, parVars, seqVars, sfvVars, srrVars, zipVars, checkZipVars, preVars>>

\* GetCRC32Parallel, called once on a file, with a token that may fire at any
\* moment.
parFrame == <<seqVars, sfvVars, srrVars, zipVars, checkZipVars, preVars>>

ParNext ==
    \/ ParStat /\ UNCHANGED parFrame
    \/ ProducerSend /\ UNCHANGED parFrame
    \/ ProducerClose /\ UNCHANGED parFrame
    \/ \E w \in 1..numWorkers : WorkerCtxDone(w) /\ UNCHANGED parFrame
    \/ \E w \in 1..numWorkers : WorkerTakeJob(w) /\ UNCHANGED parFrame
    \/ \E w \in 1..numWorkers : WorkerJobsClosed(w) /\ UNCHANGED parFrame
    \/ \E w \in 1..numWorkers : JobOpen(w) /\ UNCHANGED parFrame
    \/ \E w \in 1..numWorkers : JobCopy(w) /\ UNCHANGED parFrame
    \/ \E w \in 1..numWorkers : WorkerSendResult(w) /\ UNCHANGED parFrame
    \/ \E w \in 1..numWorkers : OrchRecvErr(w) /\ UNCHANGED parFrame
    \/ OrchCtxDone /\ UNCHANGED parFrame
    \/ OrchRecvResult /\ UNCHANGED parFrame
    \/ OrchFold /\ UNCHANGED parFrame
    \/ Cancel /\ UNCHANGED <<parVars, parFrame>>

InitPar == SharedInit /\ ParInit /\ SeqIdle /\ SfvIdle /\ SrrIdle /\ ZipIdle /\ CheckZipIdle /\ GetPreIdle

SpecPar == InitPar /\ [][ParNext]_vars

\* GetCRC32, called once on a file, with a token that may fire at any moment.
seqFrame == <<parVars, sfvVars, srrVars, zipVars, checkZipVars, preVars>>

SeqNext ==
    \/ SeqStat /\ UNCHANGED seqFrame
    \/ SeqOpen /\ UNCHANGED seqFrame
    \/ SeqCopy /\ UNCHANGED seqFrame
    \/ Cancel /\ UNCHANGED <<seqVars, seqFrame>>

InitSeq == SharedInit /\ SeqInit /\ ParIdle /\ SfvIdle /\ SrrIdle /\ ZipIdle /\ CheckZipIdle /\ GetPreIdle

SpecSeq == InitSeq /\ [][SeqNext]_vars

\* The same, with fairness: as long as some goroutine can take a step, one of
\* them does (a file operation that was started returns).  The Go scheduler
\* guarantees more, a step of every goroutine that can take one.  The token
\* need not ever fire.
ParProgress ==
    /\ UNCHANGED parFrame
    /\ \/ ParStat
       \/ ProducerSend
       \/ ProducerClose
       \/ \E w \in 1..numWorkers :
            \/ WorkerCtxDone(w)
            \/ WorkerTakeJob(w)
            \/ WorkerJobsClosed(w)
            \/ JobOpen(w)
            \/ JobCopy(w)
            \/ WorkerSendResult(w)
            \/ OrchRecvErr(w)
       \/ OrchCtxDone
       \/ OrchRecvResult
       \/ OrchFold

FairSpecPar == SpecPar /\ WF_vars(ParProgress)

\* CheckSFV, called once on a release, with a token that may fire at any
\* moment.  The engine's own variables are not used.
EngineIdle ==
    /\ file = <<>>
    /\ observed = 0
    /\ faults = FALSE
    /\ ParIdle
    /\ SeqIdle

sfvFrame == <<file, observed, faults, parVars, seqVars, srrVars, zipVars, checkZipVars, preVars>>

SfvNext ==
    \/ SfvLoop /\ UNCHANGED sfvFrame
    \/ SfvUseParallelRead /\ UNCHANGED sfvFrame
    \/ SfvGetFiles /\ UNCHANGED sfvFrame
    \/ SfvGetFile /\ UNCHANGED sfvFrame
    \/ SfvVerify /\ UNCHANGED sfvFrame
    \/ SfvEntriesDone /\ UNCHANGED sfvFrame
    \/ SfvPerformed /\ UNCHANGED sfvFrame
    \/ SfvFinish /\ UNCHANGED sfvFrame
    \/ SfvCancel /\ UNCHANGED sfvFrame

InitSFV == ctxErr = "nil" /\ EngineIdle /\ SfvInit /\ SrrIdle /\ ZipIdle /\ CheckZipIdle /\ GetPreIdle

SpecSFV == InitSFV /\ [][SfvNext]_vars

\* CheckSRR, called once.  The service's token is not handed to the engine.
srrFrame == <<file, observed, faults, parVars, seqVars, rel, sfv, hashed, verified, verdicts,
              zipVars, checkZipVars, preVars>>

SrrNext ==
    \/ SrrUseParallelRead /\ UNCHANGED srrFrame
    \/ SrrLookup /\ UNCHANGED srrFrame
    \/ SrrFetched /\ UNCHANGED srrFrame
    \/ SrrEntry /\ UNCHANGED srrFrame
    \/ SrrRecordDone /\ UNCHANGED srrFrame
    \/ SrrFinish /\ UNCHANGED srrFrame
    \/ SrrCancel /\ UNCHANGED srrFrame

InitSRR ==
    /\ ctxErr = "nil"
    /\ EngineIdle
    /\ rel = <<>>
    /\ \E rm \in ReadModes : parallelFileRead = rm[1] /\ isSSD = rm[2]
    /\ sfv = [pc |-> "idle", m |-> 1, e |-> 1, useParallelRead |-> FALSE,
              filesFromSFV |-> <<>>, passed |-> FALSE, err |-> NilErr,
              success |-> TRUE, ret |-> NilErr, ctxAtCall |-> "nil"]
    /\ hashed = <<>>
    /\ verified = <<>>
    /\ verdicts = <<>>
    /\ SrrInit
    /\ ZipIdle
    /\ CheckZipIdle /\ GetPreIdle

SpecSRR == InitSRR /\ [][SrrNext]_vars

\* processZipFiles and validateArchiveCollection, as CheckZip calls them for
\* the containers of one directory.
zipFrame == <<sharedVars, parVars, seqVars, sfvVars, srrVars, checkZipVars, preVars>>

ZipNext ==
    \/ ZipOpenReader /\ UNCHANGED zipFrame
    \/ ZipContents /\ UNCHANGED zipFrame
    \/ ZipFilesDone /\ UNCHANGED zipFrame
    \/ ZipValidate /\ UNCHANGED zipFrame

InitZip == ctxErr = "nil" /\ EngineIdle /\ SfvIdle /\ SrrIdle /\ ZipInit /\ CheckZipIdle /\ GetPreIdle

SpecZip == InitZip /\ [][ZipNext]_vars

\* CheckZip on the zip files of a release.
checkZipFrame == <<sharedVars, parVars, seqVars, sfvVars, srrVars, zipVars, preVars>>

CheckZipNext ==
    \/ CheckZipGroup /\ UNCHANGED checkZipFrame
    \/ CheckZipFiles /\ UNCHANGED checkZipFrame
    \/ CheckZipValidate /\ UNCHANGED checkZipFrame
    \/ CheckZipReturn /\ UNCHANGED checkZipFrame

InitCheckZip ==
    /\ ctxErr = "nil" /\ EngineIdle /\ SfvIdle /\ SrrIdle /\ ZipIdle /\ CheckZipInit
    /\ GetPreIdle

SpecCheckZip == InitCheckZip /\ [][CheckZipNext]_vars

\* GetPre and the goroutines it starts.
preFrame == <<sharedVars, parVars, seqVars, sfvVars, srrVars, zipVars, checkZipVars>>

PreNext ==
    \/ GetPreSpawn /\ UNCHANGED preFrame
    \/ GetPreSpawnCloser /\ UNCHANGED preFrame
    \/ PreTimeout /\ UNCHANGED preFrame
    \/ (\E i \in Sources : SearchReturn(i)) /\ UNCHANGED preFrame
    \/ (\E i \in Sources : SearcherCtxDone(i)) /\ UNCHANGED preFrame
    \/ (\E i \in Sources : GetPreRecv(i)) /\ UNCHANGED preFrame
    \/ CloserClose /\ UNCHANGED preFrame
    \/ GetPreRecvClosed /\ UNCHANGED preFrame
    \/ GetPreCtxDone /\ UNCHANGED preFrame
    \/ GetPreCancel /\ UNCHANGED preFrame

InitPre ==
    /\ ctxErr = "nil" /\ EngineIdle /\ SfvIdle /\ SrrIdle /\ ZipIdle /\ CheckZipIdle
    /\ GetPreInit

SpecPre == InitPre /\ [][PreNext]_vars

\* The steps that the scheduler and the token's delivery guarantee: every
\* step but the timer and the return of a search whose token has not fired.
PreProgress ==
    /\ \/ GetPreSpawn
       \/ GetPreSpawnCloser
       \/ \E i \in Sources : preCtx # "nil" /\ SearchReturn(i)
       \/ \E i \in Sources : SearcherCtxDone(i)
       \/ \E i \in Sources : GetPreRecv(i)
       \/ CloserClose
       \/ GetPreRecvClosed
       \/ GetPreCtxDone
       \/ GetPreCancel
    /\ UNCHANGED preFrame

FairSpecPre == SpecPre /\ WF_vars(PreProgress)

\* ----------------------------------------------------------------- claims
ParReturned == orch.pc = "returned"

\* C1: when no file operation fails and the token never fires, GetCRC32Parallel
\* returns, without error, the CRC32 that GetCRC32 returns for the same bytes,
\* whatever the file, the worker count and the interleaving; that is 0 for the
\* empty file.
C1_ParallelEqualsSequential ==
    (ParReturned /\ ~faults /\ ctxErr = "nil")
        => /\ orch.retErr = NilErr
           /\ orch.retCRC = GetCRC32(file)
           /\ fileSize = 0 => orch.retCRC = Zero32

\* A file of three chunks, the last one short, hashed by two workers.
C1_Witness ==
    /\ ParReturned /\ ~faults /\ ctxErr = "nil"
    /\ numWorkers = 2
    /\ totalChunks = 3
    /\ fileSize % ChunkSize # 0
    /\ orch.retErr = NilErr
    /\ orch.retCRC # Zero32

\* The result of chunk i when its job succeeds.
ChunkResult(i) ==
    LET c == ChunkList(fileSize)[i + 1]
    IN  Chunk(i, Update(Zero32, Slice(file, c.startPos, c.chunkLength)), c.chunkLength)

\* C2: once a chunk job has failed, the call returns an error and no checksum;
\* the error returned is the first (and only) one received from errChan; the
\* failed job's chunk{} is never stored in results; and after the return
\* nothing more is collected from the other workers.
C2_State ==
    /\ (ParReturned /\ faults) => (orch.retErr # NilErr /\ orch.retCRC = Zero32)
    /\ errRecv # <<>> =>
          /\ ParReturned
          /\ Len(errRecv) = 1
          /\ orch.retErr = Wrap("crc32 calculation", errRecv[1])
    /\ \A i \in DOMAIN slotWrites :
          slotWrites[i] > 0 => orch.results[i] = ChunkResult(i)

C2_ChunkFailureReturnsError ==
    /\ []C2_State
    /\ [][ParReturned => (orch' = orch /\ slotWrites' = slotWrites)]_vars

\* An error was received while a result of another worker was waiting in
\* resultChan, and a second job is still blocked on errChan.
C2_Witness ==
    /\ ParReturned
    /\ errRecv # <<>>
    /\ resultChan # <<>>
    /\ \E w \in DOMAIN wk : wk[w].pc = "errSend"

\* C3: under fair scheduling GetCRC32Parallel returns, and it returns for one of
\* three reasons: all bytes were collected, an error arrived, or the token
\* fired.
C3_ReturnCause ==
    (ParReturned /\ started) =>
        \/ orch.retErr = NilErr /\ orch.checkedLength = fileSize
        \/ errRecv # <<>> /\ orch.retErr = Wrap("crc32 calculation", errRecv[1])
        \/ ctxErr # "nil" /\ orch.retErr = CtxError(ctxErr)

C3_AlwaysReturns == []C3_ReturnCause /\ <>ParReturned

\* The call returned with every chunk of a three-chunk file collected, the
\* workers and the producer having ended.
C3_Witness ==
    /\ ParReturned
    /\ totalChunks = 3
    /\ orch.checkedLength = fileSize
    /\ jobClosed
    /\ \A w \in DOMAIN wk : wk[w].pc = "exit"

SeqReturned == seq.pc = "returned"

\* C4: GetCRC32 checks the token before every Read.  A call that reaches the
\* copy with a token that had already fired reads no byte and returns the
\* token's error itself; a read or observer-write error is returned wrapped
\* with the file path and is not a context error.
C4_State ==
    /\ seq.ctxAtCall # "nil" => seq.pos = 0
    /\ (SeqReturned /\ seq.ctxAtCall # "nil" /\ seq.cause \notin {"stat", "dir", "open"})
          => seq.retErr = <<seq.ctxAtCall>>
    /\ (SeqReturned /\ seq.cause = "ctx") => seq.retErr = <<ctxErr>>
    /\ (SeqReturned /\ seq.cause \in {"read", "write"})
          => /\ Head(seq.retErr) = "filePath: copy"
             /\ seq.retErr \notin {<<"Canceled">>, <<"DeadlineExceeded">>}
             /\ ~ErrorsIs(seq.retErr, "Canceled")
             /\ ~ErrorsIs(seq.retErr, "DeadlineExceeded")

C4_TokenCheckedBeforeEveryRead ==
    /\ []C4_State
    /\ [][seq'.pos # seq.pos => ctxErr = "nil"]_vars

\* A call on a file that is not empty, with a token already cancelled: it
\* returned context.Canceled.
C4_Witness ==
    /\ SeqReturned
    /\ fileSize > 0
    /\ seq.ctxAtCall = "Canceled"
    /\ seq.cause = "ctx"
    /\ seq.retErr = <<"Canceled">>

\* ------------------------------------------------ claims: sidecar verifier
SfvDone == sfv.pc = "done"

\* The entry's file is read without error and its CRC32 is the manifest's.
EntryMatches(en) == en.fault = "ok" /\ GetCRC32(en.data) = FromHex(en.crcStr)

\* Every file the manifest names exists and is part of the release tree.
AllExist(manifest) ==
    /\ Len(manifest) > 0
    /\ \A e \in 1..Len(manifest) : manifest[e].exists /\ manifest[e].inTree

HasMissing(manifest) == \E e \in 1..Len(manifest) : ~manifest[e].exists

\* The entries of manifest m, in manifest order.
EntriesOf(m) == [e \in 1..Len(rel[m]) |-> <<m, e>>]

\* The part of hashed that belongs to manifest m.
HashedOf(m) == SelectSeq(hashed, LAMBDA h : h[1] = m)

\* The entries of the manifests 1..m, manifest after manifest.
RECURSIVE EntriesUpTo(_)
EntriesUpTo(m) == IF m = 0 THEN <<>> ELSE EntriesUpTo(m - 1) \o EntriesOf(m)

IsCancellation(err) == ErrorsIs(err, "Canceled") \/ ErrorsIs(err, "DeadlineExceeded")

IsResourceError(err) == ErrorsIs(err, "EACCES") \/ ErrorsIs(err, "EIO")

ModeValid == parallelFileRead \in {"Disabled", "Enabled", "Auto"}

\* C5: when performSFVCheck returns for a manifest whose files all exist, with
\* a valid read mode and a token that has not fired, every entry of the
\* manifest has been hashed exactly once, in manifest order (so a mismatch
\* stopped nothing), the error is nil, and passed is true exactly when every
\* entry's computed CRC32 equals the manifest's.
C5_EveryEntryHashedOnce ==
    (/\ sfv.pc = "performed"
     /\ ModeValid
     /\ AllExist(rel[sfv.m])
     /\ ctxErr = "nil")
    => /\ sfv.err = NilErr
       /\ HashedOf(sfv.m) = EntriesOf(sfv.m)
       /\ sfv.passed <=> (\A e \in 1..Len(rel[sfv.m]) : EntryMatches(rel[sfv.m][e]))

\* A manifest of two entries: the first one mismatches, the second one matches
\* and was hashed after it.
C5_Witness ==
    /\ sfv.pc = "performed"
    /\ ctxErr = "nil"
    /\ Len(rel[sfv.m]) = 2
    /\ AllExist(rel[sfv.m])
    /\ rel[sfv.m][1].fault = "ok"
    /\ ~EntryMatches(rel[sfv.m][1])
    /\ EntryMatches(rel[sfv.m][2])
    /\ HashedOf(sfv.m) = <<<<sfv.m, 1>>, <<sfv.m, 2>>>>
    /\ sfv.passed = FALSE
    /\ sfv.err = NilErr

\* C6: when CheckSFV is done and no performSFVCheck call returned an error,
\* every manifest was checked, in order, and every entry of every manifest was
\* hashed, also after a failed verdict; each verdict is "passed" exactly when
\* all the manifest's entries match; CheckSFV returns nil exactly when every
\* manifest passed and ErrSfvValidationFailed exactly when one failed.
C6_AllManifestsChecked ==
    (SfvDone /\ \A i \in 1..Len(verdicts) : verdicts[i].err = NilErr)
    => /\ Len(verdicts) = Len(rel)
       /\ \A i \in 1..Len(verdicts) :
            /\ verdicts[i].m = i
            /\ verdicts[i].passed <=>
                 (\A e \in 1..Len(rel[i]) : EntryMatches(rel[i][e]))
       /\ hashed = EntriesUpTo(Len(rel))
       /\ sfv.ret = NilErr <=> (\A i \in 1..Len(verdicts) : verdicts[i].passed)
       /\ sfv.ret = <<"ErrSfvValidationFailed">> <=>
            (\E i \in 1..Len(verdicts) : ~verdicts[i].passed)

\* Two manifests: the first one failed, the second one was checked and passed.
C6_Witness ==
    /\ SfvDone
    /\ Len(rel) = 2
    /\ Len(verdicts) = 2
    /\ verdicts[1].err = NilErr /\ ~verdicts[1].passed
    /\ verdicts[2].err = NilErr /\ verdicts[2].passed
    /\ Len(rel[2]) = 2
    /\ hashed = EntriesUpTo(2)
    /\ sfv.ret = <<"ErrSfvValidationFailed">>

\* C7: a performSFVCheck call that gets as far as reading a manifest that names
\* a missing file returns an error of kind os.ErrNotExist (never (false, nil));
\* a performSFVCheck error is the last thing CheckSFV sees: it returns it,
\* wrapped, and not ErrSfvValidationFailed; and no entry is ever hashed of a
\* manifest that names a missing file or of a manifest after it.
C7_MissingFileIsFatal ==
    /\ \A i \in 1..Len(verdicts) :
         /\ (ModeValid /\ HasMissing(rel[verdicts[i].m]))
              => ErrorsIs(verdicts[i].err, "ErrNotExist")
         /\ verdicts[i].err # NilErr
              => /\ i = Len(verdicts)
                 /\ sfv.pc \in {"performed", "done"}
                 /\ SfvDone => /\ sfv.ret = Wrap("perform sfv check", verdicts[i].err)
                               /\ ~ErrorsIs(sfv.ret, "ErrSfvValidationFailed")
    /\ \A i \in 1..Len(hashed) : \A m \in 1..hashed[i][1] : ~HasMissing(rel[m])

\* The first manifest was hashed; the second one names a file that exists and
\* then a missing one: none of its entries was hashed and the call ended with
\* os.ErrNotExist.
C7_Witness ==
    /\ SfvDone
    /\ Len(rel) = 2
    /\ ~HasMissing(rel[1])
    /\ Len(rel[2]) = 2
    /\ rel[2][1].exists /\ rel[2][1].inTree
    /\ ~rel[2][2].exists
    /\ hashed = EntriesOf(1)
    /\ hashed # <<>>
    /\ ErrorsIs(sfv.ret, "ErrNotExist")

\* C8: once VerifyCRC32 has returned a cancellation for an entry, that call is
\* the last one: no further entry is handed to the engine, performSFVCheck
\* returns (false, that error) at once, no later manifest is checked, and the
\* error CheckSFV returns satisfies the same context error and is not
\* ErrSfvValidationFailed.
C8_CancellationSurfaces ==
    \A i \in 1..Len(verified) :
      IsCancellation(verified[i])
      => /\ i = Len(verified)
         /\ Len(hashed) = i
         /\ sfv.pc \in {"performed", "done"}
         /\ verdicts # <<>>
         /\ verdicts[Len(verdicts)] =
              [m |-> hashed[i][1], passed |-> FALSE, err |-> verified[i]]
         /\ SfvDone => /\ \A c \in CtxErrs :
                            ErrorsIs(verified[i], c) => ErrorsIs(sfv.ret, c)
                       /\ IsCancellation(sfv.ret)
                       /\ ~ErrorsIs(sfv.ret, "ErrSfvValidationFailed")

\* The token fired while the first entry of the first manifest was hashed; the
\* manifest has a second entry and the release a second manifest.
C8_Witness ==
    /\ SfvDone
    /\ Len(rel) = 2
    /\ Len(rel[1]) = 2
    /\ AllExist(rel[1])
    /\ AllExist(rel[2])
    /\ hashed = <<<<1, 1>>>>
    /\ IsCancellation(verified[1])
    /\ ErrorsIs(sfv.ret, "DeadlineExceeded")

\* C9: a resource error (permission denied, I/O failure) that VerifyCRC32
\* returns for an existing entry ends performSFVCheck and CheckSFV with an
\* error: that call is the last one and performSFVCheck returns a non-nil
\* error.
C9_ResourceErrorPropagates ==
    \A i \in 1..Len(verified) :
      IsResourceError(verified[i])
      => /\ i = Len(verified)
         /\ sfv.pc \in {"performed", "done"}
         /\ verdicts # <<>>
         /\ verdicts[Len(verdicts)].err # NilErr

\* ------------------------------------------ claims: remote-record verifier
SrrDone == srr.pc = "done"

\* The entry is found with the declared size and, in a full check, its file is
\* read without error and has the declared CRC32.
EntryPasses(fs) ==
    /\ fs.found
    /\ Len(fs.data) = fs.size
    /\ fastCheck \/ (/\ ParseUint(fs.crc).err = NilErr
                     /\ fs.fault = "ok"
                     /\ GetCRC32(fs.data) = ParseUint(fs.crc).val)

\* The entries of the records 1..r, record after record, as <<record, entry>>.
RECURSIVE SrrEntriesUpTo(_)
SrrEntriesUpTo(r) ==
    IF r = 0 THEN <<>>
    ELSE SrrEntriesUpTo(r - 1) \o [e \in 1..Len(srr.srrdbReleases[r]) |-> <<r, e>>]

ExaminedPasses(i) == EntryPasses(srr.srrdbReleases[examined[i][1]][examined[i][2]])

\* C10: from the moment the tracker exists, the entries are examined in order,
\* record after record; a failing entry (not found, other size, CRC that does
\* not match or cannot be computed) is the last one examined: with it the call
\* is over, the tracker is cancelled and not finished, and the error returned
\* is not nil.  The tracker is cancelled only so, it is never both cancelled
\* and finished, and it is finished exactly when the call is over and every
\* entry of every record was examined and passed; then nil is returned.
C10_FirstFailureEndsRun ==
    /\ ~(bar.cancelled /\ bar.finished)
    /\ bar.created =>
         LET all == SrrEntriesUpTo(Len(srr.srrdbReleases))
         IN  /\ Len(examined) <= Len(all)
             /\ examined = SubSeq(all, 1, Len(examined))
             /\ \A i \in 1..Len(examined) :
                  ~ExaminedPasses(i)
                  => /\ i = Len(examined)
                     /\ SrrDone
                     /\ bar.cancelled
                     /\ ~bar.finished
                     /\ srr.ret # NilErr
             /\ bar.cancelled => (examined # <<>> /\ ~ExaminedPasses(Len(examined)))
             /\ bar.finished <=>
                  (/\ SrrDone
                   /\ examined = all
                   /\ \A i \in 1..Len(examined) : ExaminedPasses(i))
             /\ SrrDone => (srr.ret = NilErr <=> bar.finished)

\* Two records of two entries; the second entry of the first record has a CRC
\* that does not match: the run ended there, the second record untouched.
C10_Witness ==
    /\ SrrDone
    /\ ~fastCheck
    /\ Len(srr.srrdbReleases) = 2
    /\ Len(srr.srrdbReleases[1]) = 2
    /\ Len(srr.srrdbReleases[2]) = 2
    /\ srr.srrdbReleases[1][2].crc = NoSuchCRC
    /\ srr.srrdbReleases[1][2].found
    /\ srr.srrdbReleases[1][2].size = Len(srr.srrdbReleases[1][2].data)
    /\ examined = <<<<1, 1>>, <<1, 2>>>>
    /\ bar.cancelled
    /\ ~bar.finished
    /\ ErrorsIs(srr.ret, "ErrSrrValidationFailed")

\* The entries of record r, in the record's order, as <<record, entry>>.
RecordEntries(r) == [e \in 1..Len(srr.srrdbReleases[r]) |-> <<r, e>>]

SrrEntryAt(x) == srr.srrdbReleases[x[1]][x[2]]

\* The parts of examined and of engineCalls that belong to record r.
ExaminedOf(r) == SelectSeq(examined, LAMBDA x : x[1] = r)

CallsOf(r) == SelectSeq(engineCalls, LAMBDA x : x[1] = r)

\* Every entry of record r is found locally with the declared size.
RecordAllLocal(r) ==
    \A e \in 1..Len(srr.srrdbReleases[r]) :
      srr.srrdbReleases[r][e].found
        /\ Len(srr.srrdbReleases[r][e].data) = srr.srrdbReleases[r][e].size

\* verifySingleSRR has returned for record r.
RecordReturned(r) ==
    /\ bar.created
    /\ r \in 1..Len(srr.srrdbReleases)
    /\ srr.r > r \/ (SrrDone /\ srr.r = r)

\* The entry of record r at which verifySingleSRR stops: the first one that
\* does not pass, or the last one.
StopsAt(r) ==
    LET n == Len(srr.srrdbReleases[r])
        failing == {e \in 1..n : ~EntryPasses(srr.srrdbReleases[r][e])}
    IN  IF failing = {} THEN n ELSE CHOOSE e \in failing : \A f \in failing : e <= f

\* C11 as stated: for a record whose entries all exist locally with equal
\* sizes, once verifySingleSRR has returned, the engine was invoked zero times
\* in fast-check mode and exactly once for every declared entry in full-check
\* mode; in fast-check mode no CRC was parsed and the record passed.
C11_EngineOncePerEntry ==
    \A r \in 1..Len(srr.srrdbReleases) :
      (RecordReturned(r) /\ RecordAllLocal(r))
      => IF fastCheck
         THEN /\ engineCalls = <<>>
              /\ parsed = <<>>
              /\ ~(SrrDone /\ srr.r = r)
         ELSE CallsOf(r) = RecordEntries(r)

\* C11, amended: in full-check mode the entries are taken in order up to the
\* first one that does not pass (all of them when all pass); of these the
\* engine was invoked exactly once for each whose CRC string parses, and not
\* for an entry whose CRC string is malformed.  In fast-check mode the engine
\* is never invoked and no CRC string is parsed, and a record whose entries all
\* exist with equal sizes passes whatever its CRC strings are.
C11_EngineOncePerExaminedEntry ==
    /\ fastCheck => (engineCalls = <<>> /\ parsed = <<>>)
    /\ \A r \in 1..Len(srr.srrdbReleases) :
         (RecordReturned(r) /\ RecordAllLocal(r))
         => IF fastCheck
            THEN ~(SrrDone /\ srr.r = r)
            ELSE /\ ExaminedOf(r) = SubSeq(RecordEntries(r), 1, StopsAt(r))
                 /\ CallsOf(r) =
                      SelectSeq(ExaminedOf(r),
                                LAMBDA x : ParseUint(SrrEntryAt(x).crc).err = NilErr)
                 /\ (\A e \in 1..Len(srr.srrdbReleases[r]) :
                       EntryPasses(srr.srrdbReleases[r][e]))
                      => CallsOf(r) = RecordEntries(r)

\* Full check of a record of two entries that exist with equal sizes: the
\* first one has a CRC that does not match, and the engine was invoked for it
\* alone.
C11_Witness ==
    /\ SrrDone
    /\ ~fastCheck
    /\ RecordReturned(1)
    /\ RecordAllLocal(1)
    /\ Len(srr.srrdbReleases[1]) = 2
    /\ srr.srrdbReleases[1][1].crc = NoSuchCRC
    /\ engineCalls = <<<<1, 1>>>>

\* The entry at which CheckSRR failed: the last one examined.
FailedEntry == SrrEntryAt(examined[Len(examined)])

\* C12: in a full check the service's token reaches the engine and an engine
\* error that is no mismatch keeps its kind.  (1) An engine call made by the
\* sequential engine after the token has fired ends CheckSRR with the token's
\* error.  (2) When CheckSRR fails at an entry whose file cannot be read, the
\* error it returns is the I/O error, and in neither case is it
\* ErrSrrValidationFailed.
C12_EngineErrorKeepsKind ==
    /\ \A i \in 1..Len(engineCalls) :
         (engineCtx[i] # "nil" /\ ~srr.useParallelRead)
         => /\ i = Len(engineCalls)
            /\ SrrDone
            /\ IsCancellation(srr.ret)
            /\ ~ErrorsIs(srr.ret, "ErrSrrValidationFailed")
    /\ (/\ SrrDone
        /\ srr.ret # NilErr
        /\ examined # <<>>
        /\ ~fastCheck
        /\ EntryStage(FailedEntry) = "verify"
        /\ FailedEntry.fault # "ok")
       => /\ IsResourceError(srr.ret)
          /\ ~ErrorsIs(srr.ret, "ErrSrrValidationFailed")

\* The records of the lookups in l that resolved, in l's order.
RECURSIVE ResolvedRecords(_)
ResolvedRecords(l) ==
    IF l = <<>> THEN <<>>
    ELSE (IF Head(l).ok THEN <<Head(l).files>> ELSE <<>>) \o ResolvedRecords(Tail(l))

\* C16: fetchSRRInformation skips the lookups that fail and keeps the records
\* of the others in candidate order; CheckSRR returns ErrNoSRRFile exactly when
\* the read mode is valid and no candidate resolves, and then no tracker was
\* made and no local file was examined.
C16_NoRecordIsFatal ==
    /\ srr.pc = "fetch"
       => srr.srrdbReleases = ResolvedRecords(SubSeq(lookups, 1, srr.i - 1))
    /\ (srr.pc = "entry" \/ bar.created)
       => /\ srr.srrdbReleases = ResolvedRecords(lookups)
          /\ srr.srrdbReleases # <<>>
    /\ SrrDone
       => /\ ErrorsIs(srr.ret, "ErrNoSRRFile")
               <=> (ModeValid /\ ResolvedRecords(lookups) = <<>>)
          /\ ErrorsIs(srr.ret, "ErrNoSRRFile")
               => (examined = <<>> /\ ~bar.created /\ srr.srrdbReleases = <<>>)

\* Two candidates, neither resolves: CheckSRR has returned ErrNoSRRFile.
C16_Witness ==
    /\ SrrDone
    /\ Len(lookups) = 2
    /\ lookups[1].name # lookups[2].name
    /\ srr.ret = <<"ErrNoSRRFile">>
    /\ examined = <<>>

\* The sum of the declared sizes of the first k examined entries that passed.
RECURSIVE VerifiedSize(_)
VerifiedSize(k) ==
    IF k = 0 THEN 0
    ELSE VerifiedSize(k - 1) + (IF ExaminedPasses(k) THEN SrrEntryAt(examined[k]).size ELSE 0)

\* C19: in fast-check mode every verified entry advances the tracker by its
\* declared size: after k verified entries the position is the sum of their
\* sizes, and after a successful CheckSRR it is the tracker's total.
C19_FastCheckAdvancesBySize ==
    (fastCheck /\ bar.created)
    => /\ bar.pos = VerifiedSize(Len(examined))
       /\ (SrrDone /\ srr.ret = NilErr) => bar.pos = bar.max

\* The first k candidates without those whose name came earlier in the list.
RECURSIVE DistinctCandidates(_)
DistinctCandidates(k) ==
    IF k = 0 THEN <<>>
    ELSE DistinctCandidates(k - 1)
           \o (IF \E j \in 1..(k - 1) : lookups[j].name = lookups[k].name
               THEN <<>> ELSE <<lookups[k]>>)

\* C20: CheckSRR fetches one record per distinct candidate name: a name that
\* comes twice is looked up once, its record is verified once and its sizes
\* are counted once in the tracker's total.
C20_OneRecordPerDistinctName ==
    /\ srr.pc = "fetch"
       => /\ srr.i - 1 = Len(DistinctCandidates(srr.i - 1))
          /\ srr.srrdbReleases = ResolvedRecords(DistinctCandidates(srr.i - 1))
    /\ bar.created
       => /\ srr.srrdbReleases = ResolvedRecords(DistinctCandidates(Len(lookups)))
          /\ bar.max = TotalSizes(ResolvedRecords(DistinctCandidates(Len(lookups))))

\* ------------------------------------------------------------ chunk plan
\* The sum of the lengths of the first k chunks of the plan cl.
RECURSIVE PlanLength(_, _)
PlanLength(cl, k) == IF k = 0 THEN 0 ELSE PlanLength(cl, k - 1) + cl[k].chunkLength

\* Whether the goroutines are running on the chunk plan.
PlanInUse == started

\* C17: for a file of size > 0 the chunk plan has ceil(size / chunkSize)
\* chunks; chunk 0 starts at offset 0, every chunk starts where the one before
\* it ends, every chunk but the last is chunkSize long, the last is 1 to
\* chunkSize long, and the lengths sum to the size.
C17_ChunkPlanCoversFile ==
    fileSize > 0
    => \E cl \in {ChunkList(fileSize)} :
         /\ (Len(cl) - 1) * ChunkSize < fileSize
         /\ fileSize <= Len(cl) * ChunkSize
         /\ Len(cl) = totalChunks
         /\ cl[1].startPos = 0
         /\ \A i \in 1..(Len(cl) - 1) :
              /\ cl[i + 1].startPos = cl[i].startPos + cl[i].chunkLength
              /\ cl[i].chunkLength = ChunkSize
         /\ cl[Len(cl)].chunkLength \in 1..ChunkSize
         /\ PlanLength(cl, Len(cl)) = fileSize

\* All jobs of a plan of several chunks whose last chunk is shorter have been
\* queued.
C17_Witness ==
    /\ PlanInUse
    /\ fileSize > ChunkSize
    /\ fileSize % ChunkSize # 0
    /\ prodIdx = Len(ChunkList(fileSize))
    /\ jobClosed

\* C18 as stated: for a zero-length file the plan is exactly one chunk with
\* offset 0 and length 0, and the call returns the CRC32 of the empty input.
C18_EmptyFileOneChunk ==
    fileSize = 0
    => /\ ChunkList(fileSize) = <<[startPos |-> 0, chunkLength |-> 0]>>
       /\ (ParReturned /\ ~faults) => (orch.retCRC = Zero32 /\ orch.retErr = NilErr)

\* C18, amended: for a zero-length file the plan has no chunk: no job is
\* queued or run, no result is collected and nothing is written to the
\* observers; once os.Stat has succeeded the call returns the CRC32 of the
\* empty input, 0, without error, whatever the token's state.
C18_EmptyFileNoChunk ==
    fileSize = 0
    => /\ ChunkList(fileSize) = <<>>
       /\ totalChunks = 0
       /\ prodIdx = 0
       /\ jobChan = <<>>
       /\ resultChan = <<>>
       /\ observed = 0
       /\ orch.checkedLength = 0
       /\ (ParReturned /\ ~faults)
          => (orch.retCRC = Zero32 /\ orch.retErr = NilErr /\ orch.retCRC = GetCRC32(file))

\* The call on an empty file has returned 0 without error, and the producer
\* has closed the job queue without queuing a job.
C18_Witness ==
    /\ fileSize = 0
    /\ ParReturned
    /\ ~faults
    /\ jobClosed
    /\ prodIdx = 0
    /\ orch.retCRC = Zero32
    /\ orch.retErr = NilErr

\* --------------------------------------------------- archive-set validator
\* The distinct fragment sizes of a result.
UniqueSizes(result) == {result.archives[i].size : i \in 1..Len(result.archives)}

\* C13: validateArchiveCollection returns nil exactly when the number of
\* fragments equals expectedTotal and the fragments have at most 2 distinct
\* sizes; otherwise it returns ErrZipValidationFailed, and when the count
\* differs it is the count that is reported, whatever the sizes; no fragment
\* with expectedTotal 0 is valid.
C13_CountThenSizes ==
    zip.pc = "validated"
    => /\ zip.err = NilErr
            <=> (/\ Len(zip.result.archives) = zip.result.expectedTotal
                 /\ Cardinality(UniqueSizes(zip.result)) <= 2)
       /\ zip.err # NilErr => ErrorsIs(zip.err, "ErrZipValidationFailed")
       /\ Len(zip.result.archives) # zip.result.expectedTotal
            => zip.err = <<"ErrZipValidationFailed", "expected archives, got">>
       /\ (/\ Len(zip.result.archives) = zip.result.expectedTotal
           /\ Cardinality(UniqueSizes(zip.result)) > 2)
            => zip.err = <<"ErrZipValidationFailed", "more than 2 different archive sizes">>
       /\ (zip.result.archives = <<>> /\ zip.result.expectedTotal = 0) => zip.err = NilErr

\* Three fragments of three sizes where two are expected: the count is
\* reported.
C13_Witness ==
    /\ zip.pc = "validated"
    /\ Len(zip.result.archives) = 3
    /\ zip.result.expectedTotal = 2
    /\ Cardinality(UniqueSizes(zip.result)) = 3
    /\ zip.err = <<"ErrZipValidationFailed", "expected archives, got">>

\* The counter entries of the container c, in c's order.
DizOf(c) == SelectSeq(c, LAMBDA e : Ext(e.name) = ".diz")

\* Every counter entry of c can be read and holds no number that is out of
\* range.
DizWellFormed(c) ==
    \A i \in 1..Len(c) :
      Ext(c[i].name) = ".diz"
      => /\ c[i].readable
         /\ c[i].content.matches
              => (Len(c[i].content.m1) < 20 /\ Len(c[i].content.m2) < 20)

\* The counters of c with current > 0, in c's order: the last of them is the
\* container's counter.
CountersOf(c) ==
    SelectSeq(DizOf(c), LAMBDA e : e.content.matches /\ DigitsValue(e.content.m1) > 0)

\* c has a counter with current > 0 and total > 0: every counter entry holds a
\* counter, and the container's counter has total > 0.
HasValidCounter(c) ==
    /\ \A i \in 1..Len(DizOf(c)) : DizOf(c)[i].content.matches
    /\ CountersOf(c) # <<>>
    /\ DigitsValue(CountersOf(c)[Len(CountersOf(c))].content.m2) > 0

HasFragment(c) == \E i \in 1..Len(c) : Ext(c[i].name) \in {".rar", ".r00"}

\* C14: processZipContents fails with ErrNoFileCountInDiz when the container
\* has no counter with current > 0 and total > 0 (no counter entry, a counter
\* entry without a match, a zero in the counter), and with ErrNoArchiveInZip
\* when it has such a counter but no fragment; otherwise it returns a fragment
\* with current > 0 and total > 0.  processZipFiles stops at the first
\* container that fails and returns the empty result with that error, so every
\* fragment it has collected, and every fragment of a result it returns, has
\* current > 0 and total > 0.
C14_CounterAndFragmentRequired ==
    /\ (zip.pc = "contents" /\ DizWellFormed(zipReader))
       => /\ ~HasValidCounter(zipReader)
               => zip.contents.err = <<"ErrNoFileCountInDiz">>
          /\ (HasValidCounter(zipReader) /\ ~HasFragment(zipReader))
               => zip.contents.err = <<"ErrNoArchiveInZip">>
          /\ (HasValidCounter(zipReader) /\ HasFragment(zipReader))
               => /\ zip.contents.err = NilErr
                  /\ zip.contents.archive.current > 0
                  /\ zip.contents.archive.total > 0
    /\ zip.pc = "failed"
       => /\ zip.err # NilErr
          /\ zip.result = ZeroArchiveResult
          /\ Len(zip.archives) = zip.idx - 1
          /\ zip.idx <= zip.n
    /\ \A i \in 1..Len(zip.archives) :
         zip.archives[i].current > 0 /\ zip.archives[i].total > 0
    /\ zip.pc \in {"processed", "validated"}
       => /\ Len(zip.result.archives) = zip.n
          /\ \A i \in 1..Len(zip.result.archives) :
               zip.result.archives[i].current > 0 /\ zip.result.archives[i].total > 0

\* The second of three containers has a counter but no fragment:
\* processZipFiles has returned the empty result and ErrNoArchiveInZip.
C14_Witness ==
    /\ zip.pc = "failed"
    /\ zip.n = 3
    /\ zip.idx = 2
    /\ Len(zip.archives) = 1
    /\ zip.err = <<"ErrNoArchiveInZip">>
    /\ zip.result = ZeroArchiveResult

\* C15: expectedTotal is the total of the first container of the list and is
\* never changed afterwards: a later container with another total neither
\* alters it nor makes processZipFiles fail.
C15_FirstTotalWins ==
    /\ zip.totalExpectedFiles = IF zip.archives = <<>> THEN 0 ELSE zip.archives[1].total
    /\ zip.pc \in {"processed", "validated"}
       => /\ zip.result.archives = zip.archives
          /\ Len(zip.result.archives) = zip.n
          /\ zip.result.expectedTotal =
               IF zip.result.archives = <<>> THEN 0 ELSE zip.result.archives[1].total
    /\ zip.pc = "failed"
       => zip.err \in {zip.contents.err, <<"read zip file", "ErrFormat">>}

\* processZipFiles has returned three fragments; the second and the third
\* container declare other totals than the first.
C15_Witness ==
    /\ zip.pc = "processed"
    /\ Len(zip.result.archives) = 3
    /\ zip.result.archives[2].total # zip.result.archives[1].total
    /\ zip.result.archives[3].total # zip.result.archives[1].total
    /\ zip.result.expectedTotal = zip.result.archives[1].total

\* ------------------------------------------- GetCRC32Parallel, continued
\* The collection loop has ended with every byte collected: the fold is next,
\* or the call has returned its result.
LoopExitedComplete ==
    /\ started
    /\ orch.checkedLength >= fileSize
    /\ orch.pc = "collect" \/ (ParReturned /\ orch.retErr = NilErr)

\* The slots 0..k-1 combined one after the other, in ascending index order.
RECURSIVE AscendingCombine(_)
AscendingCombine(k) ==
    IF k = 0 THEN Zero32
    ELSE CHOOSE r \in {CRC32Combine(p, orch.results[k - 1].crc, orch.results[k - 1].len) :
                       p \in {AscendingCombine(k - 1)}} : TRUE

\* C21: when the collection loop ends with the collected bytes equal to the
\* file size, every slot i of results was written exactly once and holds the
\* result of chunk i (index, length and CRC32 of chunk i), whatever the order
\* in which the workers finished; the value returned is the slots combined in
\* ascending index order.
C21_SlotsHoldTheirChunks ==
    LoopExitedComplete
    => /\ orch.checkedLength = fileSize
       /\ DOMAIN orch.results = 0..(totalChunks - 1)
       /\ \A i \in 0..(totalChunks - 1) :
            /\ slotWrites[i] = 1
            /\ orch.results[i] = ChunkResult(i)
       /\ ParReturned => orch.retCRC = AscendingCombine(totalChunks)

\* The call returned the checksum of a three-chunk file hashed by two workers.
C21_Witness ==
    /\ LoopExitedComplete
    /\ ParReturned
    /\ totalChunks = 3
    /\ numWorkers = 2
    /\ \A i \in 0..2 : slotWrites[i] = 1 /\ orch.results[i].idx = i

\* C22: with a token that has fired before the call, GetCRC32Parallel returns
\* the token's error and no checksum, for every file, the empty one too, and
\* however the selects between the fired token and a ready job or result
\* resolve.
C22_CancelledBeforeCallReturnsError ==
    (ParReturned /\ orch.ctxAtCall # "nil" /\ ~faults)
    => /\ orch.retErr = CtxError(orch.ctxAtCall)
       /\ orch.retCRC = Zero32

\* C23: the token is checked inside each chunk's read loop: a worker that is
\* hashing a chunk reads no further byte of it once the token has fired.
C23_TokenCheckedInChunkReadLoop ==
    [][\A w \in DOMAIN wk :
         (ctxErr # "nil" /\ wk[w].pc = "copy" /\ w \in DOMAIN wk')
         => wk'[w].pos <= wk[w].pos]_vars

\* The goroutines GetCRC32Parallel started have ended: the producer has sent
\* every job and closed jobChan, and every worker has returned.
GoroutinesEnded ==
    started => (jobClosed /\ \A w \in DOMAIN wk : wk[w].pc = "exit")

\* C27: after GetCRC32Parallel has returned, with a checksum, an error or the
\* token's error, every goroutine it started eventually ends: none stays
\* blocked for ever sending on jobChan, resultChan or errChan.
C27_GoroutinesTerminate == ParReturned ~> GoroutinesEnded


\* ------------------------------------------------------ CheckZip, claims
\* The directory of checkZip.dir has been accepted by validateArchiveCollection
\* and checkZip.result is its result.
DirAccepted ==
    /\ checkZip.pc \in {"range", "returned"}
    /\ checkZip.dir # ""
    /\ checkZip.err = NilErr

Fragments == checkZip.result.archives

\* C24: in every set that validateArchiveCollection accepts, all fragments have
\* the same size except at most one, and that one is the last volume of the
\* set, the one with the highest declared index, and is smaller than the others.
C24_OnlyLastVolumeSmaller ==
    DirAccepted
    => \E s \in {Fragments[i].size : i \in 1..Len(Fragments)} :
         LET odd == {i \in 1..Len(Fragments) : Fragments[i].size # s}
         IN /\ Cardinality(odd) <= 1
            /\ \A i \in odd :
                 /\ Fragments[i].size < s
                 /\ \A j \in 1..Len(Fragments) : Fragments[j].current <= Fragments[i].current

\* The zip files that CheckZip hands to processZipFiles for checkZip.dir.
SetMembers == checkZip.zipFilesByDir[checkZip.dir]

\* C25: CheckZip validates the containers of each directory as a separate set;
\* containers that lie in two different directories are never counted in the
\* same set, also when the two directories have the same base name.
C25_OneSetPerDirectory ==
    checkZip.pc = "validate"
    => \A i, j \in 1..Len(SetMembers) :
         zipFiles[SetMembers[i]] = zipFiles[SetMembers[j]]

RECURSIVE AllEntries(_)
\* The entries of the containers, in processing order.
AllEntries(files) ==
    IF files = <<>> THEN <<>> ELSE Head(files).entries \o AllEntries(Tail(files))

RECURSIVE FirstNfo(_)
\* The first non-empty .nfo entry of the entries.
FirstNfo(entries) ==
    IF entries = <<>> THEN ZeroNFOFile
    ELSE IF Ext(Head(entries).name) = ".nfo" /\ Head(entries).content.id # 0
    THEN NFOFile(Head(entries).name, Head(entries).content)
    ELSE FirstNfo(Tail(entries))

\* C26: the result of processZipFiles holds the first non-empty .nfo entry met
\* over the containers in processing order; no later container and no later
\* entry of the same container changes it.
C26_FirstNfoWins ==
    checkZip.pc = "validate"
    => checkZip.result.nfoFile = FirstNfo(AllEntries(checkZip.files))

\* Two containers: the first holds an empty .nfo entry and then two non-empty
\* ones, the second holds another; the result holds the first non-empty entry.
C26_Witness ==
    /\ checkZip.pc = "validate"
    /\ Len(checkZip.files) = 2
    /\ Len(checkZip.files[1].entries) = 5
    /\ FirstNfo(checkZip.files[2].entries).content.id = 1
    /\ checkZip.result.nfoFile.content.id = 2

\* C28: in every accepted directory the current indices of the containers are
\* pairwise distinct and are exactly 1..T, and every container declares the
\* total T, the expected total of the result.
C28_IndicesAreOneToTotal ==
    DirAccepted
    => /\ \A i, j \in 1..Len(Fragments) :
            i # j => Fragments[i].current # Fragments[j].current
       /\ {Fragments[i].current : i \in 1..Len(Fragments)} = 1..checkZip.result.expectedTotal
       /\ \A i \in 1..Len(Fragments) : Fragments[i].total = checkZip.result.expectedTotal

CheckZipReturned == checkZip.pc = "returned"

\* C29: after CheckZip(rel, extractNFO = true) has returned nil for a release
\* whose containers hold a non-empty .nfo entry, rel.NFO holds such an entry.
C29_ExtractedNfoIsStored ==
    (CheckZipReturned /\ checkZip.err = NilErr /\ checkZip.extractNFO
     /\ checkZip.captured # {})
    => relNFO \in checkZip.captured

\* ---------------------------------------------------------- GetPre, claims
GetPreReturned == getPre.pc = "returned"

\* Every goroutine that GetPre started has returned.
PreGoroutinesEnded ==
    /\ \A i \in Sources : searchers[i].pc = "exit"
    /\ closer = "exit"

\* Every source has come back with an error or without a result.
AllSourcesFailed ==
    \A i \in Sources :
        searchers[i].pc = "exit" /\ (searchers[i].err # NilErr \/ searchers[i].pre = NoPre)

\* C30: GetPre always returns once its timer is let to fire, and after it has
\* returned every goroutine it started terminates; it returns a result only
\* if a source produced that result without error; and when all sources have
\* failed it returns nil, with no need for the timer.
C30_GetPreReturnsAndLeaksNothing ==
    /\ WF_vars(PreTimeout /\ UNCHANGED preFrame) => <>GetPreReturned
    /\ GetPreReturned ~> PreGoroutinesEnded
    /\ [](getPre.ret # NoPre
          => \E i \in Sources : searchers[i].pre = getPre.ret /\ searchers[i].err = NilErr)
    /\ AllSourcesFailed ~> (GetPreReturned /\ getPre.ret = NoPre)

\* GetPre has returned the result of one source while the other source was
\* waiting to send its own, and all goroutines have ended.
C30_Witness ==
    /\ GetPreReturned
    /\ getPre.ret # NoPre
    /\ \A i \in Sources : searchers[i].pre # NoPre
    /\ PreGoroutinesEnded

=============================================================================
